---- MODULE Spec2Model ----
(***************************************************************************)
(* A model of the JSON-RPC engine of udplogserver (package ms71lib):       *)
(*   - the server dispatcher   (py2/SimpleJSONRPCServer.py)                *)
(*   - system.multicall and its async workers (same file)                  *)
(*   - the client HTTP transport (ms71lib/_client.py)                      *)
(*   - the client codec, MultiCall, ServerProxy and the sse generator       *)
(*     (ms71lib/_client.py)                                                *)
(*   - the multi-path server's do_POST (py2/SimpleJSONRPCServer.py)        *)
(*   - the UDP log queue and its flush loop (libs/utils.py)                *)
(*   - the task results of lock.start (ms71lib/lock.py)                    *)
(* Each part has its own variables and its own specification; the other    *)
(* parts' variables stay as Init left them.                                *)
(*                                                                         *)
(* Strings the code inspects (method names) are sequences of symbols, so  *)
(* that startswith and split are computed as the code computes them.       *)
(***************************************************************************)
EXTENDS Integers, Sequences, FiniteSets, TLC

VARIABLES
    \* ---- dispatcher (one request through _marshaled_dispatch)
    d_cfg,        \* the dispatcher: funcs, instance, allow_dotted_names
    d_data,       \* the request as received
    d_pc,         \* "ready" | "done"
    d_resp,       \* what _marshaled_dispatch gave back (or that it raised)
    d_ran,        \* the handler that was invoked, and with what
    d_beh         \* what that handler did (the environment's choice)

dvars == <<d_cfg, d_data, d_pc, d_resp, d_ran, d_beh>>

VARIABLES
    \* ---- system.multicall (one batch and the worker threads it starts)
    m_calls,      \* call_list, the batch as received
    m_idx,        \* the entry the for loop is at
    m_results,    \* results
    m_emit,       \* system_emit: <<>> (None) or <<the configured target>>
    m_pc,         \* "loop" | "returned" | "aborted" | "idle" (between batches)
    m_log,        \* per processed entry: the records it appended, did it
                  \* raise, the system_emit it found
    m_threads,    \* the workers started for async entries
    m_pushes      \* the completion pushes made, in the order they were made

mvars == <<m_calls, m_idx, m_results, m_emit, m_pc, m_log, m_threads, m_pushes>>

VARIABLES
    \* ---- client transport (one Transport object and the calls made on it)
    t_safe,       \* the object is a SafeTransport
    t_conn,       \* self._connection: host key, connection object, its class
    t_nconn,      \* connection objects this call can still reach, numbered
    t_closed,     \* those of them that close() has closed
    t_hosts301,   \* self._hosts301
    t_pc,         \* where the running request() is, "idle" between calls
    t_call,       \* its host argument and the loop index i
    t_loc,        \* the Location that single_request is following
    t_resp,       \* resp
    t_reqs,       \* the HTTP requests this call has sent, in order
    t_fails,      \* the exceptions that left single_request in this call
    t_result,     \* how the request() that has just ended ended
    t_ncalls      \* calls made so far

tvars == <<t_safe, t_conn, t_nconn, t_closed, t_hosts301, t_pc, t_call,
           t_loc, t_resp, t_reqs, t_fails, t_result, t_ncalls>>

VARIABLES
    \* ---- client codec (one envelope through dumps and loads)
    c_env,        \* the envelope given to dumps
    c_wire,       \* the JSON document on the wire
    c_pc,         \* "start" | "wire" | "done"
    c_via,        \* who decoded: "loads" | "parse_response"
    c_dec         \* what the decoder gave back, or what it raised

cvars == <<c_env, c_wire, c_pc, c_via, c_dec>>

VARIABLES
    \* ---- client MultiCall (one MultiCall object on one server proxy)
    k_py,         \* which client library: "py3" (_client.py) | "py2"
    k_call_list,  \* self.__call_list
    k_serial,     \* calls added so far (each call carries its number)
    k_sent,       \* the descriptor lists given to system.multicall, in order
    k_results,    \* the result list the last invocation received
    k_raised,     \* the exception the last invocation ended with
    k_hist,       \* what the program did so far: the calls it added and
                  \* where it invoked the MultiCall
    k_item        \* the position last indexed in the MultiCallIterator
                  \* and what that gave

kvars == <<k_py, k_call_list, k_serial, k_sent, k_results, k_raised, k_hist,
           k_item>>

VARIABLES
    \* ---- ServerProxy (one proxy object and what a program does with it)
    p_handler,    \* self.__handler
    p_headers,    \* self.__transport._api_headers
    p_last        \* the last operation: what it was, what it gave to the
                  \* transport, what it returned or raised

pvars == <<p_handler, p_headers, p_last>>

VARIABLES
    \* ---- SSE client (one sse() generator and the server it reads from)
    s_pc,            \* "connecting" | "streaming" | "yielded" (suspended at
                     \* the yield of the error tuple) | "backoff" | "ended"
    s_fg_ping,       \* the argument fg_ping
    s_hdr,           \* headers["Last-Event-ID"], <<None>> when not there
    s_last_event_id, \* last_event_id, <<None>> for None
    s_retry,         \* retry
    s_event,         \* event
    s_data,          \* data, <<>> for None
    s_event_id,      \* event_id
    s_open,          \* the response f is open
    s_line,          \* the line the loop took last on this connection
    s_out,           \* what the last step yielded: <<>> or <<the tuple>>
    s_end,           \* how this connection ended, "none" while it has not
    s_errs,          \* error tuples yielded for this connection
    s_waited,        \* the retry interval slept since the connection ended
    s_nconn,         \* connection attempts made
    s_attempt,       \* the last attempt: its Last-Event-ID header, the wait
                     \* before it, last_event_id and the id fields received
                     \* before it
    s_recv,          \* was an id field received so far, the last one, and
                     \* the ids of the events yielded so far
    s_stop           \* why the generator ended: "interrupt" | "sleep" |
                     \* "close" (the consumer closed it)

svars == <<s_pc, s_fg_ping, s_hdr, s_last_event_id, s_retry, s_event, s_data,
           s_event_id, s_open, s_line, s_out, s_end, s_errs, s_waited,
           s_nconn, s_attempt, s_recv, s_stop>>

VARIABLES
    \* ---- multi-path server (one listening endpoint and the POSTs it gets)
    r_rpc_paths,     \* RequestHandlerClass.rpc_paths
    r_dispatchers,   \* the paths of server.dispatchers
    r_pc,            \* "setup" | "serving"
    r_req,           \* the last POST: its path and its body
    r_resp,          \* the HTTP response to it
    r_ran,           \* the handler invoked for it
    r_n              \* POSTs handled

rvars == <<r_rpc_paths, r_dispatchers, r_pc, r_req, r_resp, r_ran, r_n>>

VARIABLES
    \* ---- Transport.send_request (the headers and the body of one request)
    h_gzip,          \* the module gzip was imported (None in a build without)
    h_threshold,     \* self.encode_threshold, <<>> for None
    h_api_headers,   \* self._api_headers
    h_body,          \* the argument request_body
    h_sent,          \* what went to the connection, or that the call raised
    h_n              \* requests made

hvars == <<h_gzip, h_threshold, h_api_headers, h_body, h_sent, h_n>>

VARIABLES
    \* ---- the UDP log queue (libs/utils.py: UDPHandler.handle and qRead)
    q_now,           \* what time.time() gives, in ticks
    q_queue,         \* sys.APPCONF["queue"]
    q_put,           \* datagrams handled so far
    q_pc,            \* where qRead is: "check" | "flush" | "drain" (in the
                     \* for loop) | "sleep"
    q_start_time,    \* start_time
    q_size,          \* q_size, as read by the last check
    q_batch,         \* full_data of the last pull
    q_flushed_at,    \* when the last pull was made (when qRead began, before)
    q_nflush,        \* pulls made
    q_full_data,     \* full_data while the for loop fills it
    q_sunk           \* the batches given to saveD.pull, in order

qvars == <<q_now, q_queue, q_put, q_pc, q_start_time, q_size, q_batch,
           q_flushed_at, q_nflush, q_full_data, q_sunk>>

\* the parts other than the dispatcher, the batch and the transport
VARIABLES
    \* ---- a task of lock.start: its _ThreadResult, the worker thread and
    \*      the thread that holds the _ThreadResult (lock.py)
    l_result,        \* __result
    l_error,         \* __error is an exception (None otherwise)
    l_isReady,       \* __isReady
    l_isWait,        \* __isWait
    l_qWait,         \* items in __qWait, a Queue(1)
    l_resolve,       \* __resolve is set
    l_reject,        \* __reject is set
    l_pc,            \* where each thread is, by line of lock.py
    l_calls,         \* the callbacks invoked, in order
    l_nops           \* done() and wait() calls the holder has made

lvars == <<l_result, l_error, l_isReady, l_isWait, l_qWait, l_resolve,
           l_reject, l_pc, l_calls, l_nops>>

VARIABLES
    \* ---- one Transport object used by two threads at a time
    x_conn,          \* self._connection
    x_nconn,         \* connection objects made so far, numbered
    x_closed,        \* those of them that close() has closed
    x_th,            \* per thread: where its request() is, its host argument,
                     \* the loop index i, and http_conn, the object it uses
    x_ncalls         \* calls made so far

xvars == <<x_conn, x_nconn, x_closed, x_th, x_ncalls>>

clientvars == <<cvars, kvars, pvars, svars, rvars, hvars, qvars, lvars, xvars>>

vars == <<dvars, mvars, tvars, clientvars>>

None == "None"

\* the transport's values that its idle state needs
Hosts == {"A", "B"}
NoConn == [host |-> None, id |-> 0, secure |-> FALSE]
NoLoc == [has |-> FALSE, https |-> FALSE, host |-> None]
NoResponse == [status |-> 0, body |-> "", loc |-> NoLoc]
NoErr == [url |-> None, errcode |-> 0, errmsg |-> <<>>, headers |-> NoLoc]
NoResult == [kind |-> "none", exc |-> None, value |-> None, err |-> NoErr]
NoCall == [host |-> None, i |-> 0]

\* values and JSON documents: a tag, a text (a sequence of symbols) and the
\* items of a container
Val(t, a, items) == [t |-> t, a |-> a, items |-> items]

NoVal == Val("none", <<>>, <<>>)

NoEnv == [kind |-> "none", method |-> NoVal, params |-> NoVal, kwargs |-> NoVal,
          code |-> NoVal, message |-> NoVal]

NoDec == [kind |-> "none", exc |-> None, params |-> NoVal, kwargs |-> NoVal,
          method |-> NoVal, code |-> NoVal, message |-> NoVal, value |-> NoVal]

\* no envelope is being encoded or decoded
CIdle ==
    /\ c_env = NoEnv
    /\ c_wire = NoVal
    /\ c_pc = "done"
    /\ c_via = "none"
    /\ c_dec = NoDec

KIdle ==
    /\ k_py = "py3"
    /\ k_call_list = <<>>
    /\ k_serial = 0
    /\ k_sent = <<>>
    /\ k_results = NoVal
    /\ k_raised = None
    /\ k_hist = <<>>
    /\ k_item = [i |-> 0, out |-> NoDec]

NoOp == [op |-> "none", chain |-> <<>>, sent |-> <<>>, closed |-> FALSE,
         out |-> "none"]

\* ServerProxy.__init__ of "http://host/RPC2"
PIdle ==
    /\ p_handler = "/RPC2"
    /\ p_headers = None
    /\ p_last = NoOp

NoAttempt == [hdr |-> <<None>>, waited |-> 0, last |-> <<None>>, got |-> FALSE,
              id |-> <<>>, given |-> {}]

SIdle ==
    /\ s_pc = "ended"
    /\ s_fg_ping = FALSE
    /\ s_hdr = <<None>>
    /\ s_last_event_id = <<None>>
    /\ s_retry = 2000
    /\ s_event = <<>>
    /\ s_data = <<>>
    /\ s_event_id = <<>>
    /\ s_open = FALSE
    /\ s_line = <<>>
    /\ s_out = <<>>
    /\ s_end = "none"
    /\ s_errs = 0
    /\ s_waited = 0
    /\ s_nconn = 0
    /\ s_attempt = NoAttempt
    /\ s_recv = [got |-> FALSE, id |-> <<>>, given |-> {}]
    /\ s_stop = "none"

RIdle ==
    /\ r_rpc_paths = {}
    /\ r_dispatchers = {}
    /\ r_pc = "setup"
    /\ r_req = [path |-> "",
                data |-> [kind |-> "none", method |-> <<"None">>, params |-> "",
                          kwargs |-> "", code |-> 0,
                          msg |-> [kind |-> "str", text |-> "", arg |-> <<>>]]]
    /\ r_resp = [status |-> 0, complete |-> FALSE,
                 env |-> [tag |-> "", value |-> "", code |-> 0,
                          msg |-> [kind |-> "str", text |-> "", arg |-> <<>>]]]
    /\ r_ran = [kind |-> "none", target |-> <<>>, args |-> <<>>]
    /\ r_n = 0

HIdle ==
    /\ h_gzip = TRUE
    /\ h_threshold = <<>>
    /\ h_api_headers = <<>>
    /\ h_body = [kind |-> "none", rows |-> <<>>, gz |-> FALSE]
    /\ h_sent = [outcome |-> "none", method |-> "", headers |-> <<>>,
                 body |-> [kind |-> "none", rows |-> <<>>, gz |-> FALSE],
                 encode_chunked |-> FALSE]
    /\ h_n = 0

QIdle ==
    /\ q_now = 0
    /\ q_queue = <<>>
    /\ q_put = 0
    /\ q_pc = "check"
    /\ q_start_time = 0
    /\ q_size = 0
    /\ q_batch = <<>>
    /\ q_flushed_at = 0
    /\ q_nflush = 0
    /\ q_full_data = <<>>
    /\ q_sunk = <<>>

LIdle ==
    /\ l_result = "None"
    /\ l_error = FALSE
    /\ l_isReady = 0
    /\ l_isWait = FALSE
    /\ l_qWait = 0
    /\ l_resolve = FALSE
    /\ l_reject = FALSE
    /\ l_pc = [worker |-> "fin", holder |-> "idle"]
    /\ l_calls = <<>>
    /\ l_nops = 0

XIdle ==
    /\ x_conn = [host |-> None, id |-> 0, secure |-> FALSE]
    /\ x_nconn = 0
    /\ x_closed = {}
    /\ x_th = [th \in {1, 2} |-> [pc |-> "idle", host |-> None, i |-> 0,
                                  http_conn |-> 0]]
    /\ x_ncalls = 0

ClientIdle == CIdle /\ KIdle /\ PIdle /\ SIdle /\ RIdle /\ HIdle /\ QIdle /\ LIdle /\ XIdle

\* Transport.__init__, and no call made
TIdle ==
    /\ t_safe = FALSE
    /\ t_conn = NoConn
    /\ t_nconn = 0
    /\ t_closed = {}
    /\ t_hosts301 = [h \in Hosts |-> None]
    /\ t_pc = "idle"
    /\ t_call = NoCall
    /\ t_loc = NoLoc
    /\ t_resp = NoResponse
    /\ t_reqs = <<>>
    /\ t_fails = <<>>
    /\ t_result = NoResult
    /\ t_ncalls = 0

------------------------------------------------------------------------------
(* Strings as sequences of symbols *)

\* bound: longest method name of the dispatcher's requests
MaxNameLen == 4

Chars == {"a", "_", "."}

Names == UNION {[1..n -> Chars] : n \in 0..MaxNameLen}

\* str.startswith
startswith(s, p) == Len(p) <= Len(s) /\ SubSeq(s, 1, Len(p)) = p

\* the position of the first sep in s at or after i, 0 if there is none
RECURSIVE find(_, _, _)
find(s, sep, i) ==
    IF i > Len(s) THEN 0
    ELSE IF s[i] = sep THEN i
    ELSE find(s, sep, i + 1)

\* str.split(sep, maxsplit); maxsplit < 0 is "no limit"
RECURSIVE split(_, _, _)
split(s, sep, maxsplit) ==
    LET k == find(s, sep, 1) IN
    IF maxsplit = 0 \/ k = 0 THEN <<s>>
    ELSE <<SubSeq(s, 1, k - 1)>>
         \o split(SubSeq(s, k + 1, Len(s)), sep,
                  IF maxsplit < 0 THEN maxsplit ELSE maxsplit - 1)

------------------------------------------------------------------------------
(* The registered instance *)

\* attribute paths of an ordinary registered object: public and private
\* attributes, one level of nesting
PlainAttrs ==
    { << <<"a">> >>, << <<"a">>, <<"a">> >>,
      << <<"_", "a">> >>, << <<"a">>, <<"_", "a">> >> }

\* getattr(obj, name) succeeds, obj being the object reached by path.
\* A dynamic instance (one defining __getattr__) answers every public name.
hasattr_path(inst, path, name) ==
    \/ Append(path, name) \in inst.attrs
    \/ inst.dynamic /\ name # <<>> /\ name[1] # "_"

Prefixes == { <<>>, <<"a", ".">>, <<"_">> }

Instances ==
    [has_dispatch : BOOLEAN, dynamic : BOOLEAN,
     attrs : {PlainAttrs}, _prefix : Prefixes]

\* resolve_dotted_attribute: the path reached, or AttributeError
RECURSIVE walk_attrs(_, _, _)
walk_attrs(inst, path, attrs) ==
    IF attrs = <<>> THEN [ok |-> TRUE, path |-> path]
    ELSE LET i == Head(attrs) IN
         IF startswith(i, <<"_">>)
         THEN [ok |-> FALSE, path |-> path]       \* private attribute
         ELSE IF hasattr_path(inst, path, i)
         THEN walk_attrs(inst, Append(path, i), Tail(attrs))
         ELSE [ok |-> FALSE, path |-> path]       \* getattr fails

strip_prefix(inst, attr) ==
    IF inst._prefix # <<>> /\ startswith(attr, inst._prefix)
    THEN SubSeq(attr, Len(inst._prefix) + 1, Len(attr))
    ELSE attr

\* the method of a request that names none (loads gives None for it)
NoneName == <<"None">>

\* a faulty variant of walk_attrs: the check for a leading '_' is missing
RECURSIVE walk_attrs_noprivate(_, _, _)
walk_attrs_noprivate(inst, path, attrs) ==
    IF attrs = <<>> THEN [ok |-> TRUE, path |-> path]
    ELSE LET i == Head(attrs) IN
         IF Append(path, i) \in inst.attrs \/ (inst.dynamic /\ i # <<>>)
         THEN walk_attrs_noprivate(inst, Append(path, i), Tail(attrs))
         ELSE [ok |-> FALSE, path |-> path]

\* a faulty variant of resolve_dotted_attribute: private segments are resolved too
resolve_dotted_attribute_noprivate(inst, attr, allow_dotted_names) ==
    IF attr = NoneName THEN [ok |-> FALSE, path |-> <<>>]
    ELSE LET a == strip_prefix(inst, attr)
             attrs == IF allow_dotted_names THEN split(a, ".", -1) ELSE <<a>>
         IN walk_attrs_noprivate(inst, <<>>, attrs)

\* every string operation on None raises AttributeError before any getattr
resolve_dotted_attribute(inst, attr, allow_dotted_names) ==
    IF attr = NoneName THEN [ok |-> FALSE, path |-> <<>>]
    ELSE LET a == strip_prefix(inst, attr)
             attrs == IF allow_dotted_names THEN split(a, ".", -1) ELSE <<a>>
         IN walk_attrs(inst, <<>>, attrs)

------------------------------------------------------------------------------
(* Values, handler behaviours, envelopes *)

\* a message: the text of an exception or of a Fault. kind "str" is text,
\* kind "object" is a value json cannot serialise (an exception instance)
Msg(kind, text, arg) == [kind |-> kind, text |-> text, arg |-> arg]

\* what an invoked handler does
\*   ret v      a JSON value             ret obj  a value json cannot encode
\*   ret fn     a plain function         fault    raises Fault(code, msg)
\*   exc        raises any other exception
Behaviours ==
    { [t |-> "ret",   v |-> "v",   code |-> 0, msg |-> Msg("str", "", <<>>)],
      [t |-> "ret",   v |-> "obj", code |-> 0, msg |-> Msg("str", "", <<>>)],
      [t |-> "ret",   v |-> "fn",  code |-> 0, msg |-> Msg("str", "", <<>>)],
      [t |-> "fault", v |-> "",    code |-> 7, msg |-> Msg("str", "m", <<>>)],
      [t |-> "fault", v |-> "",    code |-> 7, msg |-> Msg("object", "e", <<>>)],
      [t |-> "exc",   v |-> "",    code |-> 0,
       msg |-> Msg("str", "ValueError:boom", <<>>)] }

NoBeh == [t |-> "none", v |-> "", code |-> 0, msg |-> Msg("str", "", <<>>)]

Ran(kind, target, args) == [kind |-> kind, target |-> target, args |-> args]

NoRan == Ran("none", <<>>, <<>>)

not_supported(method) ==
    [t |-> "exc", v |-> "", code |-> 0,
     msg |-> Msg("str", "Exception:method is not supported", method)]

\* a faulty variant of _dispatch: the instance's _dispatch is asked before funcs
_dispatch_instance_first(cfg, method, params, kwargs, beh) ==
    IF cfg.instance # <<>> /\ cfg.instance[1].has_dispatch
    THEN [ran |-> Ran("inst_dispatch", <<>>, <<method, params, kwargs>>),
          out |-> beh]
    ELSE IF method \in cfg.funcs
    THEN [ran |-> Ran("func", <<method>>, <<params, kwargs>>), out |-> beh]
    ELSE IF cfg.instance = <<>>
    THEN [ran |-> NoRan, out |-> not_supported(method)]
    ELSE LET r == resolve_dotted_attribute(cfg.instance[1], method,
                                           cfg.allow_dotted_names) IN
         IF r.ok
         THEN [ran |-> Ran("attr", r.path, <<params, kwargs>>), out |-> beh]
         ELSE [ran |-> NoRan, out |-> not_supported(method)]

\* SimpleJSONRPCDispatcher._dispatch: the handler invoked and the outcome
_dispatch(cfg, method, params, kwargs, beh) ==
    IF method \in cfg.funcs
    THEN [ran |-> Ran("func", <<method>>, <<params, kwargs>>), out |-> beh]
    ELSE IF cfg.instance = <<>>
    THEN [ran |-> NoRan, out |-> not_supported(method)]
    ELSE LET inst == cfg.instance[1] IN
         IF inst.has_dispatch
         THEN [ran |-> Ran("inst_dispatch", <<>>, <<method, params, kwargs>>),
               out |-> beh]
         ELSE LET r == resolve_dotted_attribute(inst, method,
                                                cfg.allow_dotted_names) IN
              IF r.ok
              THEN [ran |-> Ran("attr", r.path, <<params, kwargs>>),
                    out |-> beh]
              ELSE [ran |-> NoRan, out |-> not_supported(method)]

------------------------------------------------------------------------------
(* The wire codec as the server uses it (py2 jsonrpclib) *)

Envelope(tag, value, code, msg) ==
    [tag |-> tag, value |-> value, code |-> code, msg |-> msg]

NoMsg == Msg("str", "", <<>>)

\* requests as they arrive: a Call, a Result, a Fault envelope, or bytes that
\* are no envelope at all
Requests ==
    { [kind |-> "call", method |-> m, params |-> "p", kwargs |-> "k",
       code |-> 0, msg |-> NoMsg] : m \in Names }
    \cup
    { [kind |-> "result", method |-> NoneName, params |-> "r", kwargs |-> "",
       code |-> 0, msg |-> NoMsg],
      [kind |-> "error", method |-> NoneName, params |-> "", kwargs |-> "",
       code |-> 5, msg |-> Msg("str", "req", <<>>)],
      [kind |-> "garbage", method |-> NoneName, params |-> "", kwargs |-> "",
       code |-> 0, msg |-> NoMsg] }

\* jsonrpclib.loads: (params, kwargs, method), or the exception it raises
loads(data) ==
    CASE data.kind = "call" ->
           [t |-> "ok", params |-> data.params, kwargs |-> data.kwargs,
            method |-> data.method, code |-> 0, msg |-> NoMsg]
      [] data.kind = "result" ->
           [t |-> "ok", params |-> data.params, kwargs |-> "",
            method |-> NoneName, code |-> 0, msg |-> NoMsg]
      [] data.kind = "error" ->
           [t |-> "fault", params |-> "", kwargs |-> "", method |-> NoneName,
            code |-> data.code, msg |-> data.msg]
      [] OTHER ->
           [t |-> "exc", params |-> "", kwargs |-> "", method |-> NoneName,
            code |-> 0, msg |-> Msg("str", "ValueError:no json", <<>>)]

\* json.dumps with ExtJSONEncoder: TypeError for a value it cannot encode
serialisable_value(v) == v \notin {"obj", "fn"}

serialisable_msg(m) == m.kind = "str"

\* jsonrpclib.dumps((value,), methodresponse=1)
dumps_result(v) ==
    IF serialisable_value(v)
    THEN [ok |-> TRUE, env |-> Envelope("result", v, 0, NoMsg)]
    ELSE [ok |-> FALSE, env |-> Envelope("", "", 0, NoMsg)]

\* jsonrpclib.dumps(Fault(code, msg))
dumps_fault(code, msg) ==
    IF serialisable_msg(msg)
    THEN [ok |-> TRUE, env |-> Envelope("error", "", code, msg)]
    ELSE [ok |-> FALSE, env |-> Envelope("", "", 0, NoMsg)]

\* what _marshaled_dispatch hands to its caller
Returned(env) == [kind |-> "returned", env |-> env]

ReturnedRaw == [kind |-> "raw", env |-> Envelope("", "fn", 0, NoMsg)]

Raised == [kind |-> "raised", env |-> Envelope("", "", 0, NoMsg)]

NoResp == [kind |-> "none", env |-> Envelope("", "", 0, NoMsg)]

\* the bare except: of _marshaled_dispatch: Fault(1, "type:value")
fault_1(msg) == dumps_fault(1, Msg("str", msg.text, msg.arg))

\* a plain function is handed back as it is, not encoded
is_function(v) == v = "fn"

\* SimpleJSONRPCDispatcher._marshaled_dispatch, dispatch_method = None
_marshaled_dispatch(cfg, data, beh) ==
    LET l == loads(data) IN
    IF l.t = "fault"
    THEN LET e == dumps_fault(l.code, l.msg) IN
         [resp |-> IF e.ok THEN Returned(e.env) ELSE Raised,
          ran |-> NoRan, out |-> NoBeh]
    ELSE IF l.t = "exc"
    THEN [resp |-> Returned(fault_1(l.msg).env), ran |-> NoRan, out |-> NoBeh]
    ELSE
    LET d == _dispatch(cfg, l.method, l.params, l.kwargs, beh)
        o == d.out
    IN  CASE o.t = "ret" /\ is_function(o.v) ->
               [resp |-> ReturnedRaw, ran |-> d.ran, out |-> o]
          [] o.t = "ret" /\ ~is_function(o.v) ->
               LET e == dumps_result(o.v) IN
               [resp |-> IF e.ok THEN Returned(e.env)
                         ELSE Returned(fault_1(
                                Msg("str", "TypeError:not serializable", <<>>)).env),
                ran |-> d.ran, out |-> o]
          [] o.t = "fault" ->
               LET e == dumps_fault(o.code, o.msg) IN
               [resp |-> IF e.ok THEN Returned(e.env) ELSE Raised,
                ran |-> d.ran, out |-> o]
          [] OTHER ->
               [resp |-> Returned(fault_1(o.msg).env), ran |-> d.ran, out |-> o]

------------------------------------------------------------------------------
(* The dispatcher's specification: one request, any configuration *)

FuncNames == { <<"a", ".", "a">>, <<"_", "a">> }

Configs ==
    [funcs : SUBSET FuncNames,
     instance : {<<>>} \cup { <<i>> : i \in Instances },
     allow_dotted_names : BOOLEAN]

\* the batch part, untouched while the dispatcher's specification runs
MIdle ==
    /\ m_calls = <<>>
    /\ m_idx = 1
    /\ m_results = <<>>
    /\ m_emit = <<>>
    /\ m_pc = "returned"
    /\ m_log = <<>>
    /\ m_threads = <<>>
    /\ m_pushes = <<>>

DInit ==
    /\ MIdle
    /\ TIdle
    /\ ClientIdle
    /\ d_cfg \in Configs
    /\ d_data \in Requests
    /\ d_pc = "ready"
    /\ d_resp = NoResp
    /\ d_ran = NoRan
    /\ d_beh = NoBeh

\* the server thread takes the request through _marshaled_dispatch
MarshaledDispatch ==
    /\ d_pc = "ready"
    /\ \E beh \in Behaviours :
         LET r == _marshaled_dispatch(d_cfg, d_data, beh) IN
         /\ d_resp' = r.resp
         /\ d_ran' = r.ran
         /\ d_beh' = r.out
    /\ d_pc' = "done"
    /\ UNCHANGED <<d_cfg, d_data>>
    /\ UNCHANGED <<mvars, tvars, clientvars>>

NextD == MarshaledDispatch

SpecD == DInit /\ [][NextD]_vars

------------------------------------------------------------------------------
(* Claims about the dispatcher *)

IsCall == d_data.kind = "call"

\* the response is the Fault the dispatcher makes of an unresolved method
RejectedNotSupported ==
    /\ d_ran = NoRan
    /\ d_resp.kind = "returned"
    /\ d_resp.env.tag = "error"
    /\ d_resp.env.code = 1
    /\ d_resp.env.msg = Msg("str", "Exception:method is not supported",
                            d_data.method)

\* C1 (as claimed): whatever the request and whatever the handler does,
\* _marshaled_dispatch raises nothing and returns an encoded envelope: a
\* Result when the handler returned, a Fault with the handler's own code and
\* message when it raised a Fault, a Fault with code 1 for any other exception
\* (an unresolvable method name included).
C1_AlwaysEncodedEnvelope ==
    d_pc = "done" =>
        /\ d_resp.kind = "returned"
        /\ d_beh.t = "ret" => d_resp.env.tag = "result"
        /\ d_beh.t = "fault" =>
              /\ d_resp.env.tag = "error"
              /\ d_resp.env.code = d_beh.code
              /\ d_resp.env.msg = d_beh.msg
        /\ d_beh.t = "exc" =>
              /\ d_resp.env.tag = "error"
              /\ d_resp.env.code = 1

\* str.join
RECURSIVE join(_, _)
join(parts, sep) ==
    IF parts = <<>> THEN <<>>
    ELSE IF Len(parts) = 1 THEN parts[1]
    ELSE parts[1] \o <<sep>> \o join(Tail(parts), sep)

has_private_segment(name) ==
    LET segs == split(name, ".", -1) IN
    \E k \in 1..Len(segs) : startswith(segs[k], <<"_">>)

\* C9 (as claimed): in every dispatcher configuration a method name with a
\* segment beginning with '_' is rejected as not found and runs no handler.
C9_PrivateAlwaysRejected ==
    (d_pc = "done" /\ IsCall /\ has_private_segment(d_data.method)) =>
        RejectedNotSupported

\* the segments the resolver looks at: the instance's prefix stripped, then
\* split at dots only if dotted names are allowed
resolver_segments(cfg, name) ==
    IF cfg.instance = <<>> THEN split(name, ".", -1)
    ELSE LET a == IF cfg.instance[1]._prefix # <<>>
                     /\ startswith(name, cfg.instance[1]._prefix)
                  THEN SubSeq(name, Len(cfg.instance[1]._prefix) + 1, Len(name))
                  ELSE name
         IN IF cfg.allow_dotted_names THEN split(a, ".", -1) ELSE <<a>>

\* C9 (amended): when no function is registered under exactly that name and
\* the instance has no _dispatch of its own, a name is rejected as not
\* supported, with no handler run, whenever one of the segments the resolver
\* looks at begins with '_', whether or not such an attribute exists.
C9_PrivateRejectedByResolver ==
    LET m == d_data.method
        segs == resolver_segments(d_cfg, m)
    IN
    (/\ d_pc = "done" /\ IsCall
     /\ m \notin d_cfg.funcs
     /\ (d_cfg.instance = <<>> \/ ~d_cfg.instance[1].has_dispatch)
     /\ \E k \in 1..Len(segs) : startswith(segs[k], <<"_">>))
    => RejectedNotSupported

\* C9 witness: obj._hidden exists on the instance and is still rejected
C9_Witness ==
    /\ d_pc = "done" /\ IsCall
    /\ d_data.method = <<"a", ".", "_", "a">>
    /\ d_cfg.funcs = {}
    /\ d_cfg.instance # <<>>
    /\ ~d_cfg.instance[1].has_dispatch
    /\ d_cfg.instance[1]._prefix = <<>>
    /\ d_cfg.allow_dotted_names
    /\ << <<"a">>, <<"_", "a">> >> \in d_cfg.instance[1].attrs
    /\ RejectedNotSupported

------------------------------------------------------------------------------
(* system.multicall *)

\* bound: longest batch
MaxCalls == 3

\* the dispatcher the batch runs on: one registered function, no instance
MCfg == [funcs |-> {<<"m">>}, instance |-> <<>>, allow_dotted_names |-> FALSE]

\* what the registered function may do when a batch entry invokes it
MBehaviours == { b \in Behaviours : b.v \in {"v", ""} /\ b.msg.kind = "str" }

\* ids an entry without one is given (urlsafe base64 of a uuid4)
GenIds == { <<"U1">>, <<"U2">> }

async_name(id, method) == <<"async", ":">> \o id \o <<":">> \o method

NoKwargs == [keys |-> {}, url |-> <<>>, api_key |-> ""]

EmitKwargs(scheme) ==
    [keys |-> {"url", "api_key"}, url |-> <<scheme, "hook">>, api_key |-> "key"]

Call(method, params, kwargs) ==
    [method |-> method, params |-> params, kwargs |-> kwargs]

EmitParams == <<"sse:0", "urn:uuid">>

\* the call descriptors a batch is made of
Entries ==
    { Call(<<"m">>, <<>>, NoKwargs),                       \* registered
      Call(<<"x">>, <<>>, NoKwargs),                       \* not registered
      Call(async_name(<<"K1">>, <<"m">>), <<>>, NoKwargs),
      Call(async_name(<<>>, <<"m">>), <<>>, NoKwargs),     \* async::m
      Call(<<"async", ":", "K1">>, <<>>, NoKwargs),        \* async:K1
      Call(async_name(<<"K1">>, <<"system.emit">>), EmitParams,
           EmitKwargs("http")),
      Call(async_name(<<"K1">>, <<"system.emit">>), EmitParams,
           EmitKwargs("ftp")),
      Call(async_name(<<"K1">>, <<"system.emit">>), EmitParams, NoKwargs) }

CallLists == UNION { [1..n -> Entries] : n \in 0..MaxCalls }

\* one record of the result list: [v] or {"error": [code, msg]}
Rec(kind, v, code, msg) == [kind |-> kind, v |-> v, code |-> code, msg |-> msg]

OkRec(v) == Rec("ok", v, 0, NoMsg)

ErrRec(code, msg) == Rec("error", <<>>, code, msg)

NoRec == Rec("none", <<>>, 0, NoMsg)

\* the record the except clauses make of a handler's outcome
\*   except Fault: [faultCode, faultString]    except: [1, "type:value"]
error_record(out) ==
    IF out.t = "fault" THEN ErrRec(out.code, out.msg) ELSE ErrRec(1, out.msg)

Exc(text) == [t |-> "exc", v |-> "", code |-> 0, msg |-> Msg("str", text, <<>>)]

\* jsonrpclib.ServerProxy(url): IOError unless the scheme is http or https
proxy_supported(url) == url[1] \in {"http", "https"}

\* the closure system_emit made by a system.emit entry
EmitTarget(call) ==
    [ssekey |-> call.params[1], eventname |-> call.params[2],
     url |-> call.kwargs.url, api_key |-> call.kwargs.api_key]

Thread(entry, id, method, call, f) ==
    [entry |-> entry, id |-> id, method |-> method, params |-> call.params,
     kwargs |-> call.kwargs, emit |-> f, st |-> "started", res |-> NoRec]

NoExc == [t |-> "none", v |-> "", code |-> 0, msg |-> NoMsg]

\* what one pass of the loop did: the records appended to results, the
\* exception caught (NoExc if none), the new system_emit, the thread started;
\* kind, id and chan say what the entry was and whether a completion channel
\* was configured when it was processed
Step(kind, id, appended, exc, emit, thread, chan) ==
    [kind |-> kind, id |-> id, appended |-> appended, exc |-> exc,
     escaped |-> FALSE, emit |-> emit, thread |-> thread, chan |-> chan]

\* the except clauses of the loop: the record appended for exception exc
Caught(kind, id, before, exc, system_emit) ==
    Step(kind, id, Append(before, error_record(exc)), exc, system_emit, <<>>,
         system_emit # <<>>)

\* the async branch of the loop body, the name already split
async_entry(i, call, id_async, method_name, system_emit) ==
    IF method_name = <<"system.emit">>
    THEN IF Len(call.params) < 2
         THEN Caught("emit", id_async, <<>>, Exc("IndexError"), system_emit)
         ELSE IF ~({"url", "api_key"} \subseteq call.kwargs.keys)
         THEN Caught("emit", id_async, <<>>, Exc("KeyError"), system_emit)
         ELSE Step("emit", id_async, <<>>, NoExc, <<EmitTarget(call)>>, <<>>,
                   system_emit # <<>>)
    ELSE IF system_emit = <<>>
    THEN Step("async", id_async, <<OkRec(<<None>>)>>, NoExc, system_emit,
              <<Thread(i, id_async, method_name, call, <<>>)>>, FALSE)
    ELSE IF ~proxy_supported(system_emit[1].url)
    THEN \* results.append([id_async]) is done, then system_emit() raises
         Caught("async", id_async, <<OkRec(id_async)>>, Exc("IOError"),
                system_emit)
    ELSE Step("async", id_async, <<OkRec(id_async)>>, NoExc, system_emit,
              <<Thread(i, id_async, method_name, call, system_emit)>>, TRUE)

\* a faulty variant of multicall_entry: the inline dispatch is outside the try, so an
\* exception of the handler leaves system_multicall
multicall_entry_no_except(i, call, system_emit, beh, uid) ==
    IF startswith(call.method, <<"async", ":">>)
    THEN LET parts == split(call.method, ":", 2) IN
         IF Len(parts) # 3
         THEN Caught("bad", <<>>, <<>>, Exc("ValueError"), system_emit)
         ELSE async_entry(i, call, IF parts[2] = <<>> THEN uid ELSE parts[2],
                          parts[3], system_emit)
    ELSE LET d == _dispatch(MCfg, call.method, call.params, call.kwargs, beh) IN
         IF d.out.t = "ret"
         THEN Step("inline", <<>>, <<OkRec(<<d.out.v>>)>>, NoExc, system_emit,
                   <<>>, system_emit # <<>>)
         ELSE [Step("inline", <<>>, <<>>, d.out, system_emit, <<>>,
                    system_emit # <<>>) EXCEPT !.escaped = TRUE]

\* one pass of the for loop of system_multicall over entry i
multicall_entry(i, call, system_emit, beh, uid) ==
    IF startswith(call.method, <<"async", ":">>)
    THEN LET parts == split(call.method, ":", 2) IN
         IF Len(parts) # 3
         THEN Caught("bad", <<>>, <<>>, Exc("ValueError"), system_emit)
         ELSE async_entry(i, call, IF parts[2] = <<>> THEN uid ELSE parts[2],
                          parts[3], system_emit)
    ELSE LET d == _dispatch(MCfg, call.method, call.params, call.kwargs, beh) IN
         IF d.out.t = "ret"
         THEN Step("inline", <<>>, <<OkRec(<<d.out.v>>)>>, NoExc, system_emit,
                   <<>>, system_emit # <<>>)
         ELSE Caught("inline", <<>>, <<>>, d.out, system_emit)

\* _system_emit: _res, the handler's result or the error record made of it
system_emit_result(t, beh) ==
    LET d == _dispatch(MCfg, t.method, t.params, t.kwargs, beh) IN
    IF d.out.t = "ret" THEN OkRec(<<d.out.v>>) ELSE error_record(d.out)

\* _emit(_id, _res): rpc.ann.emit_async(ssekey, eventname, _id)
\* the result _res is taken and not sent: the push has no payload
emit_push(k, t) ==
    [thread |-> k, entry |-> t.entry, url |-> t.emit[1].url,
     method |-> "ann.emit_async", ssekey |-> t.emit[1].ssekey,
     eventname |-> t.emit[1].eventname, id |-> t.id, payload |-> <<>>]

\* the dispatcher part, untouched while the batch's specification runs
DIdle ==
    /\ d_cfg = MCfg
    /\ d_data \in { r \in Requests : r.kind = "garbage" }
    /\ d_pc = "done"
    /\ d_resp = NoResp
    /\ d_ran = NoRan
    /\ d_beh = NoBeh

MInit ==
    /\ DIdle
    /\ TIdle
    /\ ClientIdle
    /\ m_calls \in CallLists
    /\ m_idx = 1
    /\ m_results = <<>>
    /\ m_emit = <<>>
    /\ m_pc = "loop"
    /\ m_log = <<>>
    /\ m_threads = <<>>
    /\ m_pushes = <<>>

\* the loop body for the next entry
ProcessEntry ==
    /\ m_pc = "loop"
    /\ m_idx <= Len(m_calls)
    /\ \E beh \in MBehaviours, uid \in GenIds :
         LET r == multicall_entry(m_idx, m_calls[m_idx], m_emit, beh, uid) IN
         /\ m_results' = m_results \o r.appended
         /\ m_emit' = r.emit
         /\ m_log' = Append(m_log,
                [kind |-> r.kind, id |-> r.id, appended |-> r.appended,
                 exc |-> r.exc, chan |-> r.chan, target |-> m_emit])
         /\ m_threads' = m_threads \o r.thread
         /\ m_pc' = IF r.escaped THEN "aborted" ELSE "loop"
    /\ m_idx' = m_idx + 1
    /\ UNCHANGED <<m_calls, m_pushes>>
    /\ UNCHANGED <<dvars, tvars, clientvars>>

\* a faulty variant of MulticallReturn: the workers are joined before the
\* return
MulticallReturn_joining ==
    /\ m_pc = "loop"
    /\ m_idx > Len(m_calls)
    /\ \A k \in 1..Len(m_threads) : m_threads[k].st = "done"
    /\ m_pc' = "returned"
    /\ UNCHANGED <<m_calls, m_idx, m_results, m_emit, m_log, m_threads, m_pushes>>
    /\ UNCHANGED <<dvars, tvars, clientvars>>

\* return results
MulticallReturn ==
    /\ m_pc = "loop"
    /\ m_idx > Len(m_calls)
    /\ m_pc' = "returned"
    /\ UNCHANGED <<m_calls, m_idx, m_results, m_emit, m_log, m_threads, m_pushes>>
    /\ UNCHANGED <<dvars, tvars, clientvars>>

\* _system_emit on its own thread: the worker runs the handler of its entry
\* and then, with a completion channel, makes its push
SystemEmitThread(k) ==
    /\ m_threads[k].st = "started"
    /\ \E beh \in MBehaviours :
         m_threads' = [m_threads EXCEPT
             ![k].res = system_emit_result(m_threads[k], beh),
             ![k].st = "done"]
    /\ m_pushes' = IF m_threads[k].emit = <<>> THEN m_pushes
                   ELSE Append(m_pushes, emit_push(k, m_threads[k]))
    /\ UNCHANGED <<m_calls, m_idx, m_results, m_emit, m_pc, m_log>>
    /\ UNCHANGED <<dvars, tvars, clientvars>>

\* the batch is over: it has returned and its workers have finished.  What
\* was recorded about it is dropped; system_emit is left as the batch had it
BatchOver ==
    /\ m_pc = "returned"
    /\ m_log # <<>>
    /\ \A k \in 1..Len(m_threads) : m_threads[k].st = "done"
    /\ m_calls' = <<>>
    /\ m_idx' = 1
    /\ m_results' = <<>>
    /\ m_pc' = "idle"
    /\ m_log' = <<>>
    /\ m_threads' = <<>>
    /\ m_pushes' = <<>>
    /\ UNCHANGED m_emit
    /\ UNCHANGED <<dvars, tvars, clientvars>>

\* a faulty variant of SystemMulticall: system_emit is kept from batch to batch
SystemMulticall_keeps_emit ==
    /\ m_pc = "idle"
    /\ m_calls' \in CallLists
    /\ m_emit' = m_emit
    /\ m_pc' = "loop"
    /\ UNCHANGED <<m_idx, m_results, m_log, m_threads, m_pushes>>
    /\ UNCHANGED <<dvars, tvars, clientvars>>

\* system_multicall is called with the next batch:
\* results = [], system_emit = None
SystemMulticall ==
    /\ m_pc = "idle"
    /\ m_calls' \in CallLists
    /\ m_results' = <<>>
    /\ m_emit' = <<>>
    /\ m_pc' = "loop"
    /\ UNCHANGED <<m_idx, m_log, m_threads, m_pushes>>
    /\ UNCHANGED <<dvars, tvars, clientvars>>

NextM ==
    \/ BatchOver
    \/ SystemMulticall
    \/ ProcessEntry
    \/ MulticallReturn
    \/ \E k \in 1..Len(m_threads) : SystemEmitThread(k)

SpecM == MInit /\ [][NextM]_vars

------------------------------------------------------------------------------
(* Claims about system.multicall *)

raised(i) == m_log[i].exc.t # "none"

\* C2 (as claimed): a call list of N entries, whatever its mix of ordinary,
\* async and system.emit entries, gives exactly N records, record i being the
\* outcome of entry i; with exactly one raising entry, that record is the
\* error record and all others are success records.
C2_OneRecordPerEntry ==
    m_pc = "returned" =>
        /\ Len(m_results) = Len(m_calls)
        /\ \A i \in 1..Len(m_calls) :
              i <= Len(m_results) /\ m_log[i].appended = <<m_results[i]>>
        /\ Cardinality({i \in 1..Len(m_log) : raised(i)}) = 1 =>
              \A i \in 1..Len(m_calls) :
                  i <= Len(m_results)
                  /\ (m_results[i].kind = "error" <=> raised(i))

RECURSIVE concat_appended(_)
concat_appended(log) ==
    IF log = <<>> THEN <<>>
    ELSE concat_appended(SubSeq(log, 1, Len(log) - 1)) \o log[Len(log)].appended

AllDone ==
    /\ m_pc = "returned"
    /\ \A k \in 1..Len(m_threads) : m_threads[k].st = "done"

\* C10 (as claimed): an async entry processed with a completion channel
\* configured gets exactly one completion push after its handler finished,
\* and the push carries the entry's id together with the handler's result
\* (or its error record).
C10_OnePushWithResult ==
    AllDone =>
        \A i \in 1..Len(m_log) :
            (m_log[i].kind = "async" /\ m_log[i].chan) =>
                LET P == {j \in 1..Len(m_pushes) : m_pushes[j].entry = i} IN
                /\ Cardinality(P) = 1
                /\ \A j \in P :
                      /\ m_pushes[j].id = m_log[i].id
                      /\ \E k \in 1..Len(m_threads) :
                            /\ m_threads[k].entry = i
                            /\ m_pushes[j].payload = <<m_threads[k].res>>

\* the entry is async:<id>:<method> with an id of its own and a method that
\* is not system.emit
named_async(i) ==
    /\ m_log[i].kind = "async"
    /\ m_calls[i].method = async_name(m_log[i].id, <<"m">>)

\* C11 (as claimed): for an async entry with a non-empty id the record at its
\* position in the list system.multicall returns is [id] if a completion
\* channel was configured when it was processed and [null] otherwise, and the
\* handler is not run inline (no inline outcome is recorded for the entry).
C11_AsyncRecordAtPosition ==
    m_pc = "returned" =>
        \A i \in 1..Len(m_log) :
            named_async(i) =>
                /\ i <= Len(m_results)
                /\ m_results[i] = IF m_log[i].chan THEN OkRec(m_log[i].id)
                                  ELSE OkRec(<<None>>)
                /\ m_log[i].appended = <<m_results[i]>>

\* the call is a system.emit entry that the loop accepts: an async name whose
\* method is system.emit, two params, url and api_key among the kwargs
configures(call) ==
    /\ startswith(call.method, <<"async", ":">>)
    /\ Len(split(call.method, ":", 2)) = 3
    /\ split(call.method, ":", 2)[3] = <<"system.emit">>
    /\ Len(call.params) >= 2
    /\ {"url", "api_key"} \subseteq call.kwargs.keys

\* the push target in force when entry i of the batch is reached: that of the
\* last system.emit entry before it, none (<<>>) if there is none
configured(i) ==
    LET J == { j \in 1..(i - 1) : configures(m_calls[j]) } IN
    IF J = {} THEN <<>>
    ELSE LET j == CHOOSE j \in J : \A k \in J : k <= j IN
         <<[ssekey |-> m_calls[j].params[1], eventname |-> m_calls[j].params[2],
            url |-> m_calls[j].kwargs.url,
            api_key |-> m_calls[j].kwargs.api_key]>>

------------------------------------------------------------------------------
(* The client transport: Transport and SafeTransport of _client.py          *)

MaxRequests == 2

\* a Location header: absent, or a URL with its scheme and netloc (a
\* relative URL has no netloc)
Loc(https, host) == [has |-> TRUE, https |-> https, host |-> host]

Locations ==
    {NoLoc} \cup {Loc(FALSE, None)}
            \cup { Loc(s, h) : s \in BOOLEAN, h \in Hosts }

Response(status, body, loc) == [status |-> status, body |-> body, loc |-> loc]

\* what a server may answer: 200, or an error status with or without a body
Responses ==
    { Response(200, "", l) : l \in Locations }
        \cup { Response(500, b, l) : b \in {"", "text"}, l \in Locations }

\* what the socket and http.client may raise: OSError with one of these
\* errno values, RemoteDisconnected, or an exception that is no OSError
ResetErrnos == {"ECONNRESET", "ECONNABORTED", "EPIPE"}
OSErrors == ResetErrnos \cup {"ETIMEDOUT"}
\* writing the request to the socket
SendFailures == {"EPIPE", "ETIMEDOUT", "Exception"}
\* waiting for the status line
ResponseFailures == {"RemoteDisconnected", "ECONNRESET", "ETIMEDOUT", "Exception"}
\* reading and decoding the body
ReadFailures == {"ECONNABORTED", "Exception"}

TReturn(value) ==
    [kind |-> "return", exc |-> None, value |-> value, err |-> NoErr]

TRaise(exc, err) ==
    [kind |-> "raise", exc |-> exc, value |-> None, err |-> err]

\* the except clauses of request with the retry on every OSError
request_except_any_oserror(i, exc) ==
    IF exc = "RemoteDisconnected"
    THEN (IF i = 1 THEN "raise" ELSE "swallow")
    ELSE IF exc \in OSErrors
         THEN (IF i = 1 THEN "raise" ELSE "swallow")
         ELSE "raise"

\* the except clauses of request: is the exception re-raised or swallowed
request_except(i, exc) ==
    IF exc = "RemoteDisconnected"
    THEN (IF i = 1 THEN "raise" ELSE "swallow")
    ELSE IF exc \in OSErrors
         THEN (IF i = 1 \/ exc \notin ResetErrnos THEN "raise" ELSE "swallow")
         ELSE "raise"

\* a faulty variant of connection_secure: SafeTransport creates what
\* Transport.make_connection creates
connection_secure_plain(safe) == FALSE

\* the class of the connections make_connection creates: HTTPConnection in
\* Transport, HTTPSConnection in SafeTransport
connection_secure(safe) == safe

\* make_connection that never looks at the cache
make_connection_nocache(self, host) ==
    LET h == IF self.hosts301[host] # None THEN self.hosts301[host] ELSE host
    IN  [conn |-> [host |-> h, id |-> self.nconn + 1,
                   secure |-> connection_secure(self.safe)],
         nconn |-> self.nconn + 1]

\* make_connection: the cache and the object count it leaves
make_connection(self, host) ==
    LET h == IF self.hosts301[host] # None THEN self.hosts301[host] ELSE host
    IN  IF h = self.conn.host
        THEN [conn |-> self.conn, nconn |-> self.nconn]
        ELSE [conn |-> [host |-> h, id |-> self.nconn + 1,
                        secure |-> connection_secure(self.safe)],
              nconn |-> self.nconn + 1]

\* close: the cache and the closed objects it leaves
close(conn, closed) ==
    IF conn.id # 0
    THEN [conn |-> NoConn, closed |-> closed \cup {conn.id}]
    ELSE [conn |-> conn, closed |-> closed]

self_ == [safe |-> t_safe, conn |-> t_conn, hosts301 |-> t_hosts301,
          nconn |-> t_nconn]

TInit ==
    /\ DIdle
    /\ MIdle
    /\ ClientIdle
    /\ t_safe \in BOOLEAN
    /\ t_conn = NoConn
    /\ t_nconn = 0
    /\ t_closed = {}
    /\ t_hosts301 = [h \in Hosts |-> None]
    /\ t_pc = "idle"
    /\ t_call = NoCall
    /\ t_loc = NoLoc
    /\ t_resp = NoResponse
    /\ t_reqs = <<>>
    /\ t_fails = <<>>
    /\ t_result = NoResult
    /\ t_ncalls = 0

\* an exception leaves single_request and meets the except clauses of the
\* for loop of request
Leave(exc, err) ==
    /\ t_fails' = Append(t_fails, exc)
    /\ IF request_except(t_call.i, exc) = "raise"
       THEN /\ t_pc' = "idle"
            /\ t_result' = TRaise(exc, err)
            /\ t_loc' = NoLoc
            /\ t_resp' = IF exc = "ProtocolError" THEN t_resp ELSE NoResponse
            /\ UNCHANGED t_call
       ELSE IF t_call.i = 0
            THEN /\ t_pc' = "send1"
                 /\ t_call' = [t_call EXCEPT !.i = 1]
                 /\ t_loc' = NoLoc
                 /\ t_resp' = NoResponse
                 /\ UNCHANGED t_result
            ELSE /\ t_pc' = "idle"
                 /\ t_result' = TReturn(None)
                 /\ t_loc' = NoLoc
                 /\ t_resp' = NoResponse
                 /\ UNCHANGED t_call

\* except Exception: self.close(); raise
CloseAndLeave(conn, exc) ==
    /\ t_conn' = close(conn, t_closed).conn
    /\ t_closed' = close(conn, t_closed).closed
    /\ Leave(exc, NoErr)

\* request(host, ...) is called.  The connection objects of earlier calls
\* that are no longer cached cannot be reached any more: the numbering
\* starts again, with the cached object, if there is one, as number 1
Request(host) ==
    /\ t_pc = "idle"
    /\ t_ncalls < MaxRequests
    /\ t_ncalls' = t_ncalls + 1
    /\ t_call' = [host |-> host, i |-> 0]
    /\ t_pc' = "send1"
    /\ t_loc' = NoLoc
    /\ t_resp' = NoResponse
    /\ t_reqs' = <<>>
    /\ t_fails' = <<>>
    /\ t_result' = NoResult
    /\ t_conn' = IF t_conn.id # 0 THEN [t_conn EXCEPT !.id = 1] ELSE t_conn
    /\ t_nconn' = IF t_conn.id # 0 THEN 1 ELSE 0
    /\ t_closed' = {}
    /\ UNCHANGED <<t_safe, t_hosts301>>
    /\ UNCHANGED <<dvars, mvars, clientvars>>

\* send_request: make_connection, then the request goes out on the
\* connection it returned (first to host, after a Location to host2)
SendRequest ==
    /\ t_pc \in {"send1", "send2"}
    /\ LET host == IF t_pc = "send1" THEN t_call.host ELSE t_loc.host
           mc == make_connection(self_, host)
       IN  /\ t_nconn' = mc.nconn
           /\ \E o \in {"ok"} \cup SendFailures :
                /\ t_reqs' = Append(t_reqs,
                      [attempt |-> t_call.i, reissue |-> t_pc = "send2",
                       arg |-> host, map |-> t_hosts301[host],
                       cached |-> t_conn, nconn |-> t_nconn,
                       to |-> mc.conn.host, conn |-> mc.conn.id,
                       secure |-> mc.conn.secure, loc |-> t_loc,
                       sent |-> o = "ok"])
                /\ IF o = "ok"
                   THEN /\ t_conn' = mc.conn
                        /\ t_pc' = IF t_pc = "send1" THEN "resp1" ELSE "resp2"
                        /\ UNCHANGED <<t_closed, t_call, t_loc, t_resp,
                                       t_fails, t_result>>
                   ELSE CloseAndLeave(mc.conn, o)
    /\ UNCHANGED <<t_safe, t_hosts301, t_ncalls>>
    /\ UNCHANGED <<dvars, mvars, clientvars>>

\* getresponse on the first connection, and the Location header of the
\* answer: followed when it names a host, returned when it does not
GetResponse ==
    /\ t_pc = "resp1"
    /\ \/ \E o \in ResponseFailures :
            /\ CloseAndLeave(t_conn, o)
            /\ UNCHANGED t_nconn
       \/ \E r \in Responses :
            IF r.loc.has /\ r.loc.host # None
            THEN /\ IF t_safe # r.loc.https
                    THEN /\ t_conn' = [host |-> r.loc.host, id |-> t_nconn + 1,
                                       secure |-> r.loc.https]
                         /\ t_nconn' = t_nconn + 1
                    ELSE UNCHANGED <<t_conn, t_nconn>>
                 /\ t_loc' = r.loc
                 /\ t_pc' = "send2"
                 /\ UNCHANGED <<t_closed, t_call, t_resp, t_fails, t_result>>
            ELSE IF r.loc.has
            THEN \/ /\ t_pc' = "idle"
                    /\ t_result' = TReturn("location")
                    /\ UNCHANGED <<t_conn, t_nconn, t_closed, t_call, t_loc,
                                   t_resp, t_fails>>
                 \/ \E o \in ReadFailures :
                       /\ CloseAndLeave(t_conn, o)
                       /\ UNCHANGED t_nconn
            ELSE /\ t_resp' = r
                 /\ t_pc' = IF r.status = 200 THEN "parse" ELSE "error"
                 /\ UNCHANGED <<t_conn, t_nconn, t_closed, t_call, t_loc,
                                t_fails, t_result>>
    /\ UNCHANGED <<t_safe, t_hosts301, t_reqs, t_ncalls>>
    /\ UNCHANGED <<dvars, mvars, clientvars>>

\* a faulty variant of GetResponse2: a Location on the answer to the re-issue
\* is followed like the first one
GetResponse2_following ==
    /\ t_pc = "resp2"
    /\ \/ \E o \in ResponseFailures :
            /\ CloseAndLeave(t_conn, o)
            /\ UNCHANGED t_hosts301
       \/ \E r \in Responses :
            /\ t_hosts301' = [[t_hosts301 EXCEPT ![t_loc.host] = None]
                                 EXCEPT ![t_call.host] = t_loc.host]
            /\ IF r.loc.has /\ r.loc.host # None
               THEN /\ t_loc' = r.loc
                    /\ t_pc' = "send2"
                    /\ UNCHANGED t_resp
               ELSE /\ t_resp' = r
                    /\ t_pc' = IF r.status = 200 THEN "parse" ELSE "error"
                    /\ UNCHANGED t_loc
            /\ UNCHANGED <<t_conn, t_closed, t_call, t_fails, t_result>>
    /\ UNCHANGED <<t_safe, t_nconn, t_reqs, t_ncalls>>
    /\ UNCHANGED <<dvars, mvars, clientvars>>

\* getresponse on the connection of the re-issued request; _hosts301 is
\* updated once the answer is in
GetResponse2 ==
    /\ t_pc = "resp2"
    /\ \/ \E o \in ResponseFailures :
            /\ CloseAndLeave(t_conn, o)
            /\ UNCHANGED t_hosts301
       \/ \E r \in Responses :
            /\ t_hosts301' = [[t_hosts301 EXCEPT ![t_loc.host] = None]
                                 EXCEPT ![t_call.host] = t_loc.host]
            /\ t_resp' = r
            /\ t_pc' = IF r.status = 200 THEN "parse" ELSE "error"
            /\ UNCHANGED <<t_conn, t_closed, t_call, t_loc, t_fails, t_result>>
    /\ UNCHANGED <<t_safe, t_nconn, t_reqs, t_ncalls>>
    /\ UNCHANGED <<dvars, mvars, clientvars>>

\* status 200: parse_response gives the value, raises the Fault of an error
\* envelope, or fails while reading or decoding
ParseResponse ==
    /\ t_pc = "parse"
    /\ \/ /\ t_pc' = "idle"
          /\ t_result' = TReturn("value")
          /\ t_loc' = NoLoc
          /\ t_resp' = NoResponse
          /\ UNCHANGED <<t_conn, t_closed, t_call, t_fails>>
       \/ /\ Leave("Fault", NoErr)
          /\ UNCHANGED <<t_conn, t_closed>>
       \/ \E o \in ReadFailures : CloseAndLeave(t_conn, o)
    /\ UNCHANGED <<t_safe, t_nconn, t_hosts301, t_reqs, t_ncalls>>
    /\ UNCHANGED <<dvars, mvars, clientvars>>

\* the error response with a self.close() before the raise
ErrorResponse_closing ==
    /\ t_pc = "error"
    /\ \/ /\ t_conn' = close(t_conn, t_closed).conn
          /\ t_closed' = close(t_conn, t_closed).closed
          /\ Leave("ProtocolError",
                [url |-> t_call.host, errcode |-> t_resp.status,
                 errmsg |-> IF t_resp.body # ""
                            THEN <<"reason", "\n", t_resp.body>>
                            ELSE <<"reason">>,
                 headers |-> t_resp.loc])
       \/ \E o \in ReadFailures :
            /\ Leave(o, NoErr)
            /\ UNCHANGED <<t_conn, t_closed>>
    /\ UNCHANGED <<t_safe, t_nconn, t_hosts301, t_reqs, t_ncalls>>
    /\ UNCHANGED <<dvars, mvars, clientvars>>

\* any other status: after the try statement the body is read and a
\* ProtocolError raised
ErrorResponse ==
    /\ t_pc = "error"
    /\ \/ Leave("ProtocolError",
                [url |-> t_call.host, errcode |-> t_resp.status,
                 errmsg |-> IF t_resp.body # ""
                            THEN <<"reason", "\n", t_resp.body>>
                            ELSE <<"reason">>,
                 headers |-> t_resp.loc])
       \/ \E o \in ReadFailures : Leave(o, NoErr)
    /\ UNCHANGED <<t_conn, t_closed>>
    /\ UNCHANGED <<t_safe, t_nconn, t_hosts301, t_reqs, t_ncalls>>
    /\ UNCHANGED <<dvars, mvars, clientvars>>

\* the caller closes the transport between two calls
Close ==
    /\ t_pc = "idle"
    /\ t_conn.id # 0
    /\ t_conn' = close(t_conn, t_closed).conn
    /\ t_closed' = close(t_conn, t_closed).closed
    /\ t_result' = NoResult
    /\ UNCHANGED <<t_safe, t_nconn, t_hosts301, t_pc, t_call, t_loc, t_resp,
                   t_reqs, t_fails, t_ncalls>>
    /\ UNCHANGED <<dvars, mvars, clientvars>>

NextT ==
    \/ \E host \in Hosts : Request(host)
    \/ SendRequest
    \/ GetResponse
    \/ GetResponse2
    \/ ParseResponse
    \/ ErrorResponse
    \/ Close

SpecT == TInit /\ [][NextT]_vars

------------------------------------------------------------------------------
(* Claims about the transport (SpecT) *)

\* the request() that was called has ended
Finished == t_pc = "idle" /\ t_result.kind # "none"

\* single_request was entered once for every first request of the log
attempts == Cardinality({ k \in DOMAIN t_reqs : ~t_reqs[k].reissue })

\* the failures the spec calls a closed or reset connection
ClosedOrReset == {"RemoteDisconnected"} \cup ResetErrnos

ProtocolErrorRaised == Finished /\ t_result.exc = "ProtocolError"

wanted(r) == IF r.map # None THEN r.map ELSE r.arg

\* C6: the cache holds at most one connection; make_connection reuses the
\* cached connection exactly when the host it was asked for, remapped through
\* _hosts301, is the host of the cached connection; otherwise it creates a
\* connection (of the transport's class) and the cache then holds that one.
C6_ConnectionCache ==
    /\ t_conn = NoConn \/ (t_conn.host \in Hosts /\ t_conn.id \in 1..t_nconn)
    /\ \A k \in DOMAIN t_reqs :
         LET r == t_reqs[k] IN
         /\ r.to = wanted(r)
         /\ r.cached.host = wanted(r)
               => r.conn = r.cached.id /\ r.secure = r.cached.secure
         /\ r.cached.host # wanted(r)
               => r.conn = r.nconn + 1 /\ r.secure = t_safe
    /\ t_pc \in {"resp1", "resp2"}
          => LET r == t_reqs[Len(t_reqs)] IN
             t_conn = [host |-> r.to, id |-> r.conn, secure |-> r.secure]

\* in one call: a request on the connection found in the cache, and a request
\* for which the cached connection was replaced, the host being remapped
C6_Witness ==
    /\ \E k \in DOMAIN t_reqs :
          /\ t_reqs[k].cached.id # 0
          /\ t_reqs[k].conn = t_reqs[k].cached.id
          /\ t_reqs[k].sent
    /\ \E k \in DOMAIN t_reqs :
          /\ t_reqs[k].cached.id # 0
          /\ t_reqs[k].conn # t_reqs[k].cached.id
          /\ t_reqs[k].map # None
          /\ t_reqs[k].sent

\* C7: a Location naming another host under the scheme the transport does
\* not speak has the request re-issued to that host on a connection of the
\* matching class; the original host is then mapped to the new one, and the
\* later calls for the original host go straight to the new host.
C7_RedirectFollowed ==
    /\ \A k \in DOMAIN t_reqs :
         LET r == t_reqs[k] IN
         r.reissue /\ r.loc.https # t_safe /\ r.loc.host # t_call.host
            => r.to = r.loc.host /\ r.secure = r.loc.https
    /\ t_pc \in {"parse", "error"} /\ t_loc.has
            /\ t_loc.https # t_safe /\ t_loc.host # t_call.host
         => t_hosts301[t_call.host] = t_loc.host
    /\ \A k \in DOMAIN t_reqs :
         LET r == t_reqs[k] IN
         ~r.reissue /\ r.map # None => r.to = r.map

------------------------------------------------------------------------------
(* The client codec: dumps, loads and Transport.parse_response of _client.py *)

MaxParams == 2

\* Python values
PNone == Val("None", <<>>, <<>>)
PBool == Val("bool", <<"true">>, <<>>)
PInt(a) == Val("int", a, <<>>)
PFloat(a) == Val("float", a, <<>>)
PStr(a) == Val("str", a, <<>>)
PDecimal == Val("Decimal", <<"1", ".", "5">>, <<>>)
PDatetime == Val("datetime", <<"2020-01-01", " ", "00:00:00">>, <<>>)
PBinary == Val("Binary", <<"ab">>, <<>>)
PList(items) == Val("list", <<>>, items)
PSet(items) == Val("set", <<>>, items)
Pair(k, v) == Val("pair", k, <<v>>)
PDict(pairs) == Val("dict", <<>>, pairs)

\* the values JSON has by itself, and the ones the encoder hook converts
JsonLeaves == {PNone, PBool, PInt(<<"1">>), PStr(<<"s">>)}
ExtLeaves == {PDecimal, PDatetime, PBinary}

Values ==
    JsonLeaves \cup ExtLeaves
        \cup {PList(<<>>), PDict(<<>>), PSet(<<PInt(<<"1">>)>>)}
        \cup { PList(<<a>>) : a \in {PInt(<<"1">>), PBinary} }
        \cup { PDict(<<Pair(k, PStr(<<"s">>))>>) :
                  k \in {<<"k">>, <<"__binary__">>, <<"method">>} }

ParamLists ==
    UNION { { PList(p) : p \in [1..n -> Values] } : n \in 0..MaxParams }

KwargMaps ==
    {PDict(<<>>), PDict(<<Pair(<<"__binary__">>, PStr(<<"s">>))>>)}
        \cup { PDict(<<Pair(<<"kw">>, v)>>) :
                  v \in {PInt(<<"1">>), PSet(<<PInt(<<"1">>)>>)} }

Env(kind, method, params, kwargs, code, message) ==
    [kind |-> kind, method |-> method, params |-> params, kwargs |-> kwargs,
     code |-> code, message |-> message]

\* what dumps is given: a call (methodname, params, kwargs), a result (the
\* singleton holding the value, methodresponse set) or a Fault
Envelopes ==
    { Env("call", PStr(<<"m">>), p, k, NoVal, NoVal) :
         p \in ParamLists, k \in KwargMaps }
      \cup { Env("result", NoVal, PList(<<v>>), NoVal, NoVal, NoVal) :
                v \in Values }
      \cup { Env("fault", NoVal, NoVal, NoVal, PInt(c), PStr(m)) :
                c \in {<<"1">>, <<"7">>}, m \in {<<"boom">>, <<>>} }

\* JSON documents
JNull == Val("null", <<>>, <<>>)
JArray(items) == Val("array", <<>>, items)
JObject(members) == Val("object", <<>>, members)
Member(k, j) == Val("member", k, <<j>>)
JString(a) == Val("string", a, <<>>)
\* text that is no JSON document
JInvalid == Val("invalid", <<"not", " ", "json">>, <<>>)
\* json.dumps gave up on a value
TypeErr == Val("TypeError", <<>>, <<>>)

has_key(members, k) == \E i \in 1..Len(members) : members[i].a = k

get_key(members, k) ==
    members[CHOOSE i \in 1..Len(members) : members[i].a = k].items[1]

\* json.dumps(v, cls=ExtJSONEncoder)
RECURSIVE json_dumps(_)
json_dumps(v) ==
    LET enc == [i \in 1..Len(v.items) |-> json_dumps(v.items[i])]
        bad == \E i \in 1..Len(v.items) : enc[i] = TypeErr
    IN  CASE v.t = "None" -> JNull
          [] v.t = "bool" -> Val("bool", v.a, <<>>)
          [] v.t = "int" -> Val("int", v.a, <<>>)
          [] v.t = "float" -> Val("float", v.a, <<>>)
          [] v.t = "str" -> JString(v.a)
          [] v.t = "Decimal" -> Val("float", v.a, <<>>)    \* float(obj)
          [] v.t = "datetime" -> JString(v.a)               \* str(obj)
          [] v.t = "Binary" -> TypeErr                      \* obj.encode()
          [] v.t \in {"list", "set"} ->
                IF bad THEN TypeErr ELSE JArray(enc)
          [] v.t = "dict" -> IF bad THEN TypeErr ELSE JObject(enc)
          [] v.t = "pair" -> IF bad THEN TypeErr ELSE Member(v.a, enc[1])
          [] OTHER -> TypeErr

\* json.loads(text, object_hook=_object_hook): an object that has the key
\* __binary__ goes to _binary, whose base64.decodebytes refuses a str
RECURSIVE json_loads(_)
json_loads(j) ==
    LET dec == [i \in 1..Len(j.items) |-> json_loads(j.items[i])]
        bad == \E i \in 1..Len(j.items) : dec[i] = TypeErr
    IN  CASE j.t = "null" -> PNone
          [] j.t = "bool" -> Val("bool", j.a, <<>>)
          [] j.t = "int" -> PInt(j.a)
          [] j.t = "float" -> PFloat(j.a)
          [] j.t = "string" -> PStr(j.a)
          [] j.t = "array" -> IF bad THEN TypeErr ELSE PList(dec)
          [] j.t = "object" ->
                IF bad \/ has_key(j.items, <<"__binary__">>) THEN TypeErr
                ELSE PDict(dec)
          [] j.t = "member" -> IF bad THEN TypeErr ELSE Pair(j.a, dec[1])
          [] OTHER -> TypeErr

\* dumps(params, kwargs, methodname, methodresponse): the document sent, or
\* TypeErr when json.dumps raised
client_dumps(env) ==
    IF env.kind = "fault"
    THEN JObject(<<Member(<<"error">>,
                     json_dumps(PList(<<env.code, env.message>>)))>>)
    ELSE IF json_dumps(env.params) = TypeErr THEN TypeErr
    ELSE IF env.kind = "call"
    THEN IF env.kwargs.items # <<>> /\ json_dumps(env.kwargs) = TypeErr
         THEN TypeErr
         ELSE JObject(
                <<Member(<<"method">>, json_dumps(env.method))>>
                \o (IF env.params.items # <<>>
                    THEN <<Member(<<"params">>, json_dumps(env.params))>>
                    ELSE <<>>)
                \o (IF env.kwargs.items # <<>>
                    THEN <<Member(<<"kwargs">>, json_dumps(env.kwargs))>>
                    ELSE <<>>))
    ELSE JObject(<<Member(<<"result">>, json_dumps(env.params))>>)

\* key in r, for whatever r the payload decoded to
contains(r, key) ==
    CASE r.t = "dict" -> IF has_key(r.items, key) THEN "yes" ELSE "no"
      [] r.t = "list" ->
            IF \E i \in 1..Len(r.items) : r.items[i] = PStr(key)
            THEN "yes" ELSE "no"
      [] r.t = "str" ->
            IF \E i \in 1..Len(r.a) : <<r.a[i]>> = key THEN "yes" ELSE "no"
      [] OTHER -> "TypeError"

\* the exception of r.pop(key) where r is no dict or has no such key
pop_error(r) ==
    CASE r.t = "dict" -> "KeyError"
      [] r.t = "list" -> "TypeError"
      [] OTHER -> "AttributeError"

Dec(kind, exc, params, kwargs, method, code, message, value) ==
    [kind |-> kind, exc |-> exc, params |-> params, kwargs |-> kwargs,
     method |-> method, code |-> code, message |-> message, value |-> value]

DecRaise(exc) == Dec("raise", exc, NoVal, NoVal, NoVal, NoVal, NoVal, NoVal)

DecFault(code, message) ==
    Dec("raise", "Fault", NoVal, NoVal, NoVal, code, message, NoVal)

\* raise Fault(*r.pop("error")): the popped value is unpacked into
\* faultCode and faultString
raise_fault(r) ==
    IF r.t # "dict" \/ ~has_key(r.items, <<"error">>)
    THEN DecRaise(pop_error(r))
    ELSE LET e == get_key(r.items, <<"error">>) IN
         IF e.t = "list" /\ Len(e.items) = 2
         THEN DecFault(e.items[1], e.items[2])
         ELSE IF e.t = "str" /\ Len(e.a) = 2
         THEN DecFault(PStr(<<e.a[1]>>), PStr(<<e.a[2]>>))
         ELSE DecRaise("TypeError")

\* a faulty variant of popped: the key is taken without asking for it first
popped_no_default(r, key, default) ==
    IF r.t = "dict" /\ has_key(r.items, key) THEN get_key(r.items, key)
    ELSE TypeErr

\* params and kwargs as both decoders take them out of r
popped(r, key, default) ==
    IF contains(r, key) = "no" THEN default
    ELSE IF r.t = "dict" THEN get_key(r.items, key)
    ELSE TypeErr

\* loads(data)
client_loads(wire) ==
    IF wire.t = "invalid" THEN DecRaise("JSONDecodeError")
    ELSE LET r == json_loads(wire) IN
    IF r = TypeErr THEN DecRaise("TypeError")
    ELSE IF contains(r, <<"method">>) = "TypeError" THEN DecRaise("TypeError")
    ELSE IF contains(r, <<"method">>) = "yes"
    THEN IF r.t = "dict"
         THEN Dec("return", None, popped(r, <<"params">>, PList(<<>>)),
                  popped(r, <<"kwargs">>, PDict(<<>>)),
                  get_key(r.items, <<"method">>), NoVal, NoVal, NoVal)
         ELSE IF popped(r, <<"params">>, PList(<<>>)) = TypeErr
                 \/ popped(r, <<"kwargs">>, PDict(<<>>)) = TypeErr
         THEN DecRaise(pop_error(r))
         ELSE DecRaise("TypeError")                  \* r['method']
    ELSE IF contains(r, <<"result">>) = "yes"
    THEN IF r.t = "dict"
         THEN Dec("return", None, get_key(r.items, <<"result">>), PDict(<<>>),
                  PNone, NoVal, NoVal, NoVal)
         ELSE DecRaise(pop_error(r))
    ELSE raise_fault(r)

\* "if v:" does not take the branch
falsy(v) ==
    \/ v.t = "None"
    \/ v.t \in {"dict", "list", "str"} /\ v.items = <<>> /\ v.a = <<>>
    \/ v.t \in {"int", "float"} /\ v.a = <<"0">>
    \/ v.t = "bool" /\ v.a = <<"false">>

\* Transport.parse_response for a JSON body answered to a POST
parse_response(wire) ==
    IF wire.t = "invalid" THEN DecRaise("JSONDecodeError")
    ELSE LET r == json_loads(wire) IN
    IF r = TypeErr THEN DecRaise("TypeError")
    ELSE IF contains(r, <<"method">>) = "TypeError" THEN DecRaise("TypeError")
    ELSE IF contains(r, <<"method">>) = "yes"
    THEN LET params == popped(r, <<"params">>, PList(<<>>))
             kwargs == popped(r, <<"kwargs">>, PDict(<<>>))
         IN  IF params = TypeErr \/ kwargs = TypeErr
             THEN DecRaise(pop_error(r))
             ELSE IF falsy(kwargs)
             THEN Dec("return", None, NoVal, NoVal, NoVal, NoVal, NoVal,
                      params)
             ELSE Dec("return", None, NoVal, NoVal, NoVal, NoVal, NoVal,
                      PList(<<params, kwargs>>))
    ELSE IF contains(r, <<"result">>) = "yes"
    THEN IF r.t = "dict"
         THEN Dec("return", None, NoVal, NoVal, NoVal, NoVal, NoVal,
                  get_key(r.items, <<"result">>))
         ELSE DecRaise(pop_error(r))
    ELSE IF contains(r, <<"error">>) = "yes"
    THEN raise_fault(r)
    ELSE Dec("return", None, NoVal, NoVal, NoVal, NoVal, NoVal, r)

\* base64.encodebytes(data).decode('ascii'): the text of the bytes, with
\* its newline; nothing for no bytes
base64_text(data) == IF data = <<>> THEN <<>> ELSE <<"YWI=", "\n">>

\* the document {"__binary__": base64 text} of a Binary
binary_document(v) ==
    JObject(<<Member(<<"__binary__">>, JString(base64_text(v.a)))>>)

\* the result envelope a peer sends for the Binary value
BinaryResult ==
    JObject(<<Member(<<"result">>, JArray(<<binary_document(PBinary)>>))>>)

\* payloads a peer may send that dumps never makes
Payloads ==
    { BinaryResult, JInvalid, JNull, Val("int", <<"3">>, <<>>), JString(<<"s">>),
      JString(<<"a", "method", "b">>), JString(<<"a", "result", "b">>),
      JArray(<<>>), JArray(<<Val("int", <<"1">>, <<>>)>>),
      JArray(<<JString(<<"method">>)>>), JArray(<<JString(<<"error">>)>>),
      JObject(<<>>),
      JObject(<<Member(<<"a">>, Val("int", <<"1">>, <<>>))>>),
      JObject(<<Member(<<"error">>, Val("int", <<"5">>, <<>>))>>),
      JObject(<<Member(<<"error">>, JString(<<"a", "b">>))>>),
      JObject(<<Member(<<"error">>, JArray(<<>>))>>),
      JObject(<<Member(<<"result">>, Val("int", <<"1">>, <<>>)),
                Member(<<"error">>, JArray(<<>>))>>) }

CInit ==
    /\ DIdle
    /\ MIdle
    /\ TIdle
    /\ XIdle
    /\ LIdle
    /\ QIdle
    /\ HIdle
    /\ RIdle
    /\ KIdle
    /\ PIdle
    /\ SIdle
    /\ c_via = "none"
    /\ c_dec = NoDec
    /\ \/ /\ c_env \in Envelopes
          /\ c_wire = NoVal
          /\ c_pc = "start"
       \/ /\ c_env = NoEnv
          /\ c_wire \in Payloads
          /\ c_pc = "wire"

\* the sender encodes its envelope
Dumps ==
    /\ c_pc = "start"
    /\ c_wire' = client_dumps(c_env)
    /\ c_pc' = IF client_dumps(c_env) = TypeErr THEN "done" ELSE "wire"
    /\ UNCHANGED <<c_env, c_via, c_dec>>
    /\ UNCHANGED <<dvars, mvars, tvars, kvars, pvars, svars, rvars, hvars, qvars, lvars, xvars>>

\* the receiver decodes with loads
Loads ==
    /\ c_pc = "wire"
    /\ c_dec' = client_loads(c_wire)
    /\ c_via' = "loads"
    /\ c_pc' = "done"
    /\ UNCHANGED <<c_env, c_wire>>
    /\ UNCHANGED <<dvars, mvars, tvars, kvars, pvars, svars, rvars, hvars, qvars, lvars, xvars>>

\* the receiver is the transport: the body goes through parse_response
DecodeResponse ==
    /\ c_pc = "wire"
    /\ c_dec' = parse_response(c_wire)
    /\ c_via' = "parse_response"
    /\ c_pc' = "done"
    /\ UNCHANGED <<c_env, c_wire>>
    /\ UNCHANGED <<dvars, mvars, tvars, kvars, pvars, svars, rvars, hvars, qvars, lvars, xvars>>

NextC == Dumps \/ Loads \/ DecodeResponse

SpecC == CInit /\ [][NextC]_vars


------------------------------------------------------------------------------
(* Claims about the client codec *)

\* v is made of what JSON has by itself: null, booleans, numbers, strings,
\* lists and maps with string keys
RECURSIVE json_value(_)
json_value(v) ==
    /\ v.t \in {"None", "bool", "int", "float", "str", "list", "dict", "pair"}
    /\ \A i \in 1..Len(v.items) : json_value(v.items[i])

\* v holds, at some depth, a map that has the key __binary__
RECURSIVE tagged(_)
tagged(v) ==
    \/ v.t = "dict" /\ has_key(v.items, <<"__binary__">>)
    \/ \E i \in 1..Len(v.items) : tagged(v.items[i])

json_envelope(env) ==
    CASE env.kind = "call" -> json_value(env.params) /\ json_value(env.kwargs)
      [] env.kind = "result" -> json_value(env.params)
      [] env.kind = "fault" -> TRUE
      [] OTHER -> FALSE

tagged_envelope(env) ==
    CASE env.kind = "call" -> tagged(env.params) \/ tagged(env.kwargs)
      [] env.kind = "result" -> tagged(env.params)
      [] OTHER -> FALSE

\* what loads gave is the envelope that dumps was given
round_trip(env, dec) ==
    CASE env.kind = "call" ->
            /\ dec.kind = "return"
            /\ dec.method = env.method
            /\ dec.params = env.params
            /\ dec.kwargs = env.kwargs
      [] env.kind = "result" ->
            /\ dec.kind = "return"
            /\ dec.params = env.params        \* the singleton with the value
            /\ dec.method = PNone
      [] env.kind = "fault" ->
            /\ dec.kind = "raise"
            /\ dec.exc = "Fault"
            /\ dec.code = env.code
            /\ dec.message = env.message
      [] OTHER -> FALSE

\* the envelope was encoded and the encoding went through loads
RoundTripped == c_env # NoEnv /\ c_pc = "done" /\ c_via = "loads"

\* C13 (as stated): for every Call, Result and Fault envelope over JSON
\* values, dumps never fails and loads of the encoding gives back the same
\* method, params and kwargs, the same value, or a Fault with the same code
\* and message.
C13_RoundTrip ==
    (json_envelope(c_env) /\ c_pc = "done") =>
        (c_via # "none" /\ (c_via = "loads" => round_trip(c_env, c_dec)))

\* C13 (amended): the round trip holds for every envelope over JSON values in
\* which no map has the key __binary__, empty params and empty kwargs
\* included.
C13_RoundTripUntagged ==
    (json_envelope(c_env) /\ ~tagged_envelope(c_env) /\ c_pc = "done") =>
        (c_via # "none" /\ (c_via = "loads" => round_trip(c_env, c_dec)))

\* a call without params and without kwargs, a call with both, a result and
\* a fault have each made the round trip
C13_Witness ==
    /\ RoundTripped
    /\ json_envelope(c_env)
    /\ ~tagged_envelope(c_env)
    /\ c_env.kind = "call"
    /\ c_env.params.items = <<>>
    /\ c_env.kwargs.items = <<>>
    /\ c_dec.params = PList(<<>>)
    /\ c_dec.kwargs = PDict(<<>>)


\* the payload is no JSON object, or an object without any of the keys
\* method, result and error
malformed(wire) ==
    \/ wire.t # "object"
    \/ \A k \in {<<"method">>, <<"result">>, <<"error">>} :
          ~has_key(wire.items, k)

\* C14: decoding a malformed payload, with loads or with the transport's
\* parse_response, fails with the dedicated malformed-envelope error: no value
\* is returned and no other kind of error is raised.
C14_MalformedEnvelope ==
    (c_pc = "done" /\ c_via # "none" /\ malformed(c_wire)) =>
        (c_dec.kind = "raise" /\ c_dec.exc = "MalformedEnvelope")


------------------------------------------------------------------------------
(* ServerProxy: attribute chains (_Method) and the side channel (__call__) *)

MaxChain == 2

\* names a program may write after the dot or pass to proxy(name)
AttrNames == {"m", "ns", "close", "transport", "request", "handler",
              "__enter__", "__exit__"}

Chains == UNION { [1..n -> AttrNames] : n \in 1..MaxChain }

\* of these names, the ones the class ServerProxy itself defines: for them
\* Python does not come to __getattr__
OwnAttrs == {"__enter__", "__exit__"}

\* the names ServerProxy.__call__ knows
SideNames == {"close", "transport", "request", "handler"}

\* a faulty variant of own_attribute: the side channel's names are taken for
\* attributes of the proxy
own_attribute_reserved(name) == name \in OwnAttrs \cup SideNames

\* getattr(proxy, name) finds name without __getattr__
own_attribute(name) == name \in OwnAttrs

\* "%s.%s" % (self.__name, name), for the whole chain
method_name(chain) == join([i \in 1..Len(chain) |-> <<chain[i]>>], ".")

Op(op, chain, sent, closed, out) ==
    [op |-> op, chain |-> chain, sent |-> sent, closed |-> closed, out |-> out]

\* what the transport is given: transport.request(host, handler, request)
Sent(kind, method, handler, headers) ==
    [kind |-> kind, method |-> method, handler |-> handler,
     headers |-> headers]

\* proxy.a.b(...): the chain is looked up and the last object is called
attr_call(chain, handler, headers) ==
    IF own_attribute(chain[1])
    THEN IF Len(chain) > 1
         THEN Op("attr", chain, <<>>, FALSE, "AttributeError")
         ELSE IF chain[1] = "__exit__"
         THEN Op("attr", chain, <<>>, TRUE, "None")       \* self.__close()
         ELSE Op("attr", chain, <<>>, FALSE, "self")       \* __enter__
    ELSE Op("attr", chain,
            <<Sent("call", method_name(chain), handler, headers)>>, FALSE,
            "response")

\* proxy(attr)
side_channel(attr) ==
    IF attr \in SideNames THEN Op("side", <<attr>>, <<>>, FALSE, attr)
    ELSE Op("side", <<attr>>, <<>>, FALSE, "AttributeError")

Handlers == {"/RPC2", "/x"}
Headers == {None, "H"}

PInit ==
    /\ DIdle
    /\ MIdle
    /\ TIdle
    /\ XIdle
    /\ LIdle
    /\ QIdle
    /\ HIdle
    /\ RIdle
    /\ CIdle
    /\ KIdle
    /\ SIdle
    /\ p_handler = "/RPC2"
    /\ p_headers = None
    /\ p_last = NoOp

\* proxy.a.b(args): ServerProxy.__getattr__, _Method, ServerProxy.__request
AttrCall ==
    /\ \E chain \in Chains : p_last' = attr_call(chain, p_handler, p_headers)
    /\ UNCHANGED <<p_handler, p_headers>>
    /\ UNCHANGED <<dvars, mvars, tvars, cvars, kvars, svars, rvars, hvars, qvars, lvars, xvars>>

\* proxy(attr): ServerProxy.__call__
SideChannel ==
    /\ \E attr \in AttrNames : p_last' = side_channel(attr)
    /\ UNCHANGED <<p_handler, p_headers>>
    /\ UNCHANGED <<dvars, mvars, tvars, cvars, kvars, svars, rvars, hvars, qvars, lvars, xvars>>

\* proxy("close")(): self.__close
SideClose ==
    /\ p_last.op = "side"
    /\ p_last.out = "close"
    /\ p_last' = Op("close()", <<>>, <<>>, TRUE, "None")
    /\ UNCHANGED <<p_handler, p_headers>>
    /\ UNCHANGED <<dvars, mvars, tvars, cvars, kvars, svars, rvars, hvars, qvars, lvars, xvars>>

\* proxy("request")(request, handler, headers): _f
SideRequest ==
    /\ p_last.op = "side"
    /\ p_last.out = "request"
    /\ \E handler \in Handlers \cup {None}, headers \in Headers :
          /\ p_handler' = IF handler # None THEN handler ELSE p_handler
          /\ p_headers' = headers
          /\ p_last' = Op("request()", <<>>,
                          <<Sent("raw", <<>>, p_handler', headers)>>, FALSE,
                          "response")
    /\ UNCHANGED <<dvars, mvars, tvars, cvars, kvars, svars, rvars, hvars, qvars, lvars, xvars>>

\* proxy("handler")(handler, headers): _f
SideHandler ==
    /\ p_last.op = "side"
    /\ p_last.out = "handler"
    /\ \E handler \in Handlers, headers \in Headers :
          /\ p_handler' = handler
          /\ p_headers' = headers
    /\ p_last' = Op("handler()", <<>>, <<>>, FALSE, "self")
    /\ UNCHANGED <<dvars, mvars, tvars, cvars, kvars, svars, rvars, hvars, qvars, lvars, xvars>>

NextP == AttrCall \/ SideChannel \/ SideClose \/ SideRequest \/ SideHandler

SpecP == PInit /\ [][NextP]_vars

------------------------------------------------------------------------------
(* The client MultiCall: _MultiCallMethod, MultiCall, MultiCallIterator *)

MaxAdds == 3
MaxInvokes == 2

\* one entry of self.__call_list: (name, args, kwargs)
Added(name, args, kwargs) == [name |-> name, args |-> args, kwargs |-> kwargs]

\* the mark an invocation leaves in k_hist
Invoked == Added(<<"()">>, NoVal, NoVal)

\* the calls a program adds: multicall.m() and multicall.ns.m(n, kw=1),
\* n telling the calls apart
NewCalls(n) ==
    { Added(<<"m">>, PList(<<>>), PDict(<<>>)),
      Added(<<"ns", ".", "m">>, PList(<<PInt(<<ToString(n)>>)>>),
            PDict(<<Pair(<<"kw">>, PInt(<<"1">>))>>)) }

\* f = {"method": name}, with params and kwargs when there are any
descriptor(c) ==
    PDict(<<Pair(<<"method">>, PStr(c.name))>>
          \o (IF ~falsy(c.args) THEN <<Pair(<<"params">>, c.args)>> ELSE <<>>)
          \o (IF ~falsy(c.kwargs) THEN <<Pair(<<"kwargs">>, c.kwargs)>>
              ELSE <<>>))

\* the while loop of MultiCall.__call__, which pops the list empty
marshalled_list(call_list) ==
    [i \in 1..Len(call_list) |-> descriptor(call_list[i])]

\* a faulty variant of MultiCall.__call__: the commented out for loop
MultiCallCall_keeps_list ==
    /\ Len(k_sent) < MaxInvokes
    /\ k_sent' = Append(k_sent, marshalled_list(k_call_list))
    /\ k_results' = PList(<<>>)
    /\ k_raised' = None
    /\ k_item' = [i |-> 0, out |-> NoDec]
    /\ k_hist' = Append(k_hist, Invoked)
    /\ UNCHANGED <<k_py, k_serial, k_call_list>>
    /\ UNCHANGED <<dvars, mvars, tvars, cvars, pvars, svars, rvars, hvars, qvars, lvars, xvars>>

\* a record of the server's result list as the client receives it:
\* [v] is a list, {"error": [code, msg]} is a dict
received(rec) ==
    IF rec.kind = "ok" THEN PList(<<PStr(<<rec.v>>)>>)
    ELSE PDict(<<Pair(<<"error">>,
                      PList(<<PInt(<<ToString(rec.code)>>),
                              PStr(<<rec.msg.text>>)>>))>>)

\* what the server's loop appends for an entry
ServerRecords == { OkRec("v"), ErrRec(1, Msg("str", "boom", <<>>)),
                   ErrRec(7, Msg("str", "no", <<>>)) }

ResultLists(n) == { PList([i \in 1..n |-> received(r[i])]) :
                       r \in [1..n -> ServerRecords] }

\* the ways the system.multicall request can fail
InvokeFailures == {"OSError", "ProtocolError", "Fault"}

DecReturn(v) == Dec("return", None, NoVal, NoVal, NoVal, NoVal, NoVal, v)

\* MultiCallIterator.__getitem__ of the library py, at 1-based position i;
\* the py2 one returns the exception object where the py3 one raises it
getitem(py, results, i) ==
    LET item == results.items[i] IN
    IF item.t = "dict"
    THEN IF py = "py2" /\ has_key(item.items, <<"error">>)
         THEN LET e == get_key(item.items, <<"error">>) IN
              Dec("return", "Fault", NoVal, NoVal, NoVal,
                  e.items[1], e.items[2], NoVal)
         ELSE IF has_key(item.items, <<"faultCode">>)
                 /\ has_key(item.items, <<"faultString">>)
         THEN IF py = "py2"
              THEN Dec("return", "Fault", NoVal, NoVal, NoVal,
                       get_key(item.items, <<"faultCode">>),
                       get_key(item.items, <<"faultString">>), NoVal)
              ELSE DecFault(get_key(item.items, <<"faultCode">>),
                            get_key(item.items, <<"faultString">>))
         ELSE DecRaise("KeyError")
    ELSE IF item.t = "list"
    THEN IF item.items = <<>> THEN DecRaise("IndexError")
         ELSE DecReturn(item.items[1])
    ELSE IF py = "py2" THEN Dec("return", "ValueError", NoVal, NoVal, NoVal,
                                NoVal, NoVal, NoVal)
    ELSE DecRaise("ValueError")

KInit ==
    /\ DIdle
    /\ MIdle
    /\ TIdle
    /\ XIdle
    /\ LIdle
    /\ QIdle
    /\ HIdle
    /\ RIdle
    /\ CIdle
    /\ PIdle
    /\ SIdle
    /\ k_py \in {"py3", "py2"}
    /\ k_call_list = <<>>
    /\ k_serial = 0
    /\ k_sent = <<>>
    /\ k_results = NoVal
    /\ k_raised = None
    /\ k_hist = <<>>
    /\ k_item = [i |-> 0, out |-> NoDec]

\* multicall.name(*args, **kwargs): _MultiCallMethod.__call__
MultiCallMethod ==
    /\ k_serial < MaxAdds
    /\ \E c \in NewCalls(k_serial + 1) :
          /\ k_call_list' = Append(k_call_list, c)
          /\ k_hist' = Append(k_hist, c)
    /\ k_serial' = k_serial + 1
    /\ UNCHANGED <<k_py, k_sent, k_results, k_raised, k_item>>
    /\ UNCHANGED <<dvars, mvars, tvars, cvars, pvars, svars, rvars, hvars, qvars, lvars, xvars>>

\* a faulty variant of MultiCall.__call__: the list is emptied only when the
\* request has succeeded
MultiCallCall_restoring ==
    /\ Len(k_sent) < MaxInvokes
    /\ k_sent' = Append(k_sent, marshalled_list(k_call_list))
    /\ \/ /\ k_results' \in ResultLists(Len(k_call_list))
          /\ k_raised' = None
          /\ k_call_list' = <<>>
       \/ /\ k_results' = NoVal
          /\ k_raised' \in InvokeFailures
          /\ k_call_list' = k_call_list
    /\ k_item' = [i |-> 0, out |-> NoDec]
    /\ k_hist' = Append(k_hist, Invoked)
    /\ UNCHANGED <<k_py, k_serial>>
    /\ UNCHANGED <<dvars, mvars, tvars, cvars, pvars, svars, rvars, hvars, qvars, lvars, xvars>>

\* multicall(): MultiCall.__call__; the server answers with one record per
\* descriptor, or the request fails
MultiCallCall ==
    /\ Len(k_sent) < MaxInvokes
    /\ k_call_list' = <<>>
    /\ k_sent' = Append(k_sent, marshalled_list(k_call_list))
    /\ \/ /\ k_results' \in ResultLists(Len(k_call_list))
          /\ k_raised' = None
       \/ /\ k_results' = NoVal
          /\ k_raised' \in InvokeFailures
    /\ k_item' = [i |-> 0, out |-> NoDec]
    /\ k_hist' = Append(k_hist, Invoked)
    /\ UNCHANGED <<k_py, k_serial>>
    /\ UNCHANGED <<dvars, mvars, tvars, cvars, pvars, svars, rvars, hvars, qvars, lvars, xvars>>

\* iterator[i]
GetItem ==
    /\ k_results # NoVal
    /\ \E i \in 1..Len(k_results.items) :
          k_item' = [i |-> i, out |-> getitem(k_py, k_results, i)]
    /\ UNCHANGED <<k_py, k_call_list, k_serial, k_sent, k_results, k_raised,
                   k_hist>>
    /\ UNCHANGED <<dvars, mvars, tvars, cvars, pvars, svars, rvars, hvars, qvars, lvars, xvars>>

NextK == MultiCallMethod \/ MultiCallCall \/ GetItem

SpecK == KInit /\ [][NextK]_vars


------------------------------------------------------------------------------
(* Claims about the client MultiCall *)

Indexed == k_item.i > 0

\* the record at the indexed position is the one of a failed entry
failed_entry == k_results.items[k_item.i].t = "dict"

entry_error == get_key(k_results.items[k_item.i].items, <<"error">>)

\* C15: indexing the MultiCallIterator at the position of a failed entry of
\* the server's result list raises a Fault with that entry's code and
\* message; at the position of a successful entry it returns the wrapped
\* value.
C15_IndexingResults ==
    Indexed =>
        IF failed_entry
        THEN /\ k_item.out.kind = "raise"
             /\ k_item.out.exc = "Fault"
             /\ k_item.out.code = entry_error.items[1]
             /\ k_item.out.message = entry_error.items[2]
        ELSE /\ k_item.out.kind = "return"
             /\ k_item.out.value = k_results.items[k_item.i].items[1]


\* the calls added between one invocation and the next, and after the last
RECURSIVE segments(_, _)
segments(hist, cur) ==
    IF hist = <<>> THEN <<cur>>
    ELSE IF Head(hist) = Invoked THEN <<cur>> \o segments(Tail(hist), <<>>)
    ELSE segments(Tail(hist), Append(cur, Head(hist)))

\* C16: every invocation sends exactly one system.multicall call, whose
\* descriptor list holds the calls added since the previous invocation, each
\* once and in the order they were added; the batch holds only the calls
\* added since the last invocation, so invoking again with no call added
\* sends the empty list and no earlier call is sent twice.
C16_BatchDrained ==
    LET segs == segments(k_hist, <<>>) IN
    /\ Len(k_sent) = Len(segs) - 1
    /\ \A n \in 1..Len(k_sent) : k_sent[n] = marshalled_list(segs[n])
    /\ k_call_list = segs[Len(segs)]

\* a batch of two calls was sent, and the invocation after it sent nothing
C16_Witness ==
    /\ Len(k_sent) = 2
    /\ Len(k_sent[1]) = 2
    /\ k_sent[1][1] # k_sent[1][2]
    /\ k_sent[2] = <<>>
    /\ k_call_list = <<>>


------------------------------------------------------------------------------
(* The SSE client: the generator sse() of _client.py (py2: jsonrpclib.py) *)

MaxData == 2
MaxConns == 3

\* the lines a server may send, as the for loop gets them (newline included)
Lines ==
    { <<"event", ":", "ping", "\n">>,
      <<"event", ":", "\n">>,
      <<"data", ":", " ", "hello", "\n">>,
      <<"data", ":", "\n">>,
      <<"id", ":", " ", "1", "\n">>,
      <<"id", ":", "\n">>,
      <<"retry", ":", " ", "500", "\n">>,
      <<"retry", ":", " ", "-5000", "\n">>,
      <<"retry", ":", " ", "soon", "\n">>,
      <<":", " ", "keepalive", "\n">>,
      <<"nocolon", "\n">>,
      <<"\n">> }

BlankLine == <<"\n">>

\* index of the first colon of the line, 0 when it has none
colon(line) ==
    IF \E i \in 1..Len(line) : line[i] = ":"
    THEN CHOOSE i \in 1..Len(line) :
            line[i] = ":" /\ \A j \in 1..(i - 1) : line[j] # ":"
    ELSE 0

\* k, v = v.split(':', 1)
field_name(line) == SubSeq(line, 1, colon(line) - 1)

\* v = v[1:-1] if v and v[0] == ' ' else v[:-1]
field_value(line) ==
    LET v == SubSeq(line, colon(line) + 1, Len(line)) IN
    IF v # <<>> /\ v[1] = " " THEN SubSeq(v, 2, Len(v) - 1)
    ELSE SubSeq(v, 1, Len(v) - 1)

\* int(v) succeeds
is_int(v) == v \in {<<"500">>, <<"-5000">>}

int(v) == IF v = <<"500">> THEN 500 ELSE -5000

\* retry / 1000.0 + random.random() is below zero whatever the jitter in
\* [0, 1) is
negative_sleep(retry) == retry <= -1000

\* "if s:" takes the branch, for a string or None
truthy(s) == s # <<>> /\ s # <<None>>

Tuple(event, data, id) == [event |-> event, data |-> data, id |-> id]

\* a faulty variant of flushed: without the "elif event" branch
flushed_without_elif(event, data, event_id) ==
    IF data # <<>> \/ event_id # <<>>
    THEN <<[event |-> IF event # <<>> THEN event ELSE <<"message">>,
            data |-> data, id |-> event_id]>>
    ELSE <<>>

\* what the blank line yields for the accumulated event, data, event_id
flushed(event, data, event_id) ==
    IF data # <<>> \/ truthy(event_id)
    THEN IF truthy(event) THEN <<Tuple(event, data, event_id)>>
         ELSE <<Tuple(<<"message">>, data, event_id)>>
    ELSE IF truthy(event) THEN <<Tuple(event, data, event_id)>>
    ELSE <<>>

\* a faulty variant of id_field: last_event_id is left for the flush
id_field_deferred(v, last_event_id) ==
    [event_id |-> v, last_event_id |-> last_event_id]

\* elif "id" == k: event_id = v; last_event_id = v
id_field(v, last_event_id) == [event_id |-> v, last_event_id |-> v]

\* yield ["error", e, last_event_id]
error_tuple(e, last_event_id) == Tuple(<<"error">>, <<e>>, last_event_id)

SInit ==
    /\ DIdle
    /\ MIdle
    /\ TIdle
    /\ XIdle
    /\ LIdle
    /\ QIdle
    /\ HIdle
    /\ RIdle
    /\ CIdle
    /\ KIdle
    /\ PIdle
    /\ s_pc = "connecting"
    /\ s_fg_ping \in BOOLEAN
    /\ s_hdr = <<None>>
    /\ s_last_event_id \in {<<None>>, <<"0">>}
    /\ s_retry = 2000
    /\ s_event = <<>>
    /\ s_data = <<>>
    /\ s_event_id = <<>>
    /\ s_open = FALSE
    /\ s_line = <<>>
    /\ s_out = <<>>
    /\ s_end = "none"
    /\ s_errs = 0
    /\ s_waited = 0
    /\ s_nconn = 0
    /\ s_attempt = NoAttempt
    /\ s_recv = [got |-> FALSE, id |-> <<>>, given |-> {}]
    /\ s_stop = "none"

\* the except Exception clause: the generator is suspended at the yield of
\* the error tuple, the finally clause still to come
YieldError(e) ==
    /\ s_out' = <<error_tuple(e, s_last_event_id')>>
    /\ s_errs' = s_errs + 1
    /\ s_end' = "error"
    /\ UNCHANGED s_open
    /\ s_pc' = "yielded"

\* a faulty variant of LeaveLoop: without the finally clause
LeaveLoop_unclosed(how) ==
    /\ s_out' = <<>>
    /\ s_end' = how
    /\ UNCHANGED s_open
    /\ s_pc' = "backoff"
    /\ UNCHANGED s_errs

\* the loop is left without an exception: finally, and on to the sleep
LeaveLoop(how) ==
    /\ s_out' = <<>>
    /\ s_end' = how
    /\ s_open' = FALSE
    /\ s_pc' = "backoff"
    /\ UNCHANGED s_errs

\* a faulty variant of Connect: event, data and event_id are set before the
\* while loop only
Connect_keeping ==
    /\ s_pc = "connecting"
    /\ s_nconn < MaxConns
    /\ s_nconn' = s_nconn + 1
    /\ s_hdr' = IF truthy(s_last_event_id) THEN s_last_event_id ELSE s_hdr
    /\ s_attempt' = [hdr |-> s_hdr', waited |-> s_waited,
                     last |-> s_last_event_id, got |-> s_recv.got,
                     id |-> s_recv.id, given |-> s_recv.given]
    /\ UNCHANGED <<s_event, s_data, s_event_id>>
    /\ s_line' = <<>>
    /\ s_waited' = 0
    /\ \/ /\ s_pc' = "streaming"
          /\ s_open' = TRUE
          /\ s_out' = <<>>
          /\ s_end' = "none"
          /\ s_errs' = 0
          /\ UNCHANGED s_stop
       \/ /\ s_out' = <<error_tuple("URLError", s_last_event_id)>>
          /\ s_errs' = 1
          /\ s_end' = "error"
          /\ s_open' = FALSE
          /\ s_pc' = "yielded"
          /\ UNCHANGED s_stop
       \/ /\ s_pc' = "ended"
          /\ s_open' = FALSE
          /\ s_out' = <<>>
          /\ s_end' = "interrupt"
          /\ s_errs' = 0
          /\ s_stop' = "interrupt"
    /\ UNCHANGED <<s_fg_ping, s_last_event_id, s_retry, s_recv>>
    /\ UNCHANGED <<dvars, mvars, tvars, cvars, kvars, pvars, rvars, hvars, qvars, lvars, xvars>>

\* the top of the while loop up to urlopen, which answers, fails or is
\* interrupted
Connect ==
    /\ s_pc = "connecting"
    /\ s_nconn < MaxConns
    /\ s_nconn' = s_nconn + 1
    /\ s_hdr' = IF truthy(s_last_event_id) THEN s_last_event_id ELSE s_hdr
    /\ s_attempt' = [hdr |-> s_hdr', waited |-> s_waited,
                     last |-> s_last_event_id, got |-> s_recv.got,
                     id |-> s_recv.id, given |-> s_recv.given]
    /\ s_event' = <<>>
    /\ s_data' = <<>>
    /\ s_event_id' = <<>>
    /\ s_line' = <<>>
    /\ s_waited' = 0
    /\ \/ /\ s_pc' = "streaming"
          /\ s_open' = TRUE
          /\ s_out' = <<>>
          /\ s_end' = "none"
          /\ s_errs' = 0
          /\ UNCHANGED s_stop
       \/ /\ s_out' = <<error_tuple("URLError", s_last_event_id)>>
          /\ s_errs' = 1
          /\ s_end' = "error"
          /\ s_open' = FALSE
          /\ s_pc' = "yielded"
          /\ UNCHANGED s_stop
       \/ /\ s_pc' = "ended"
          /\ s_open' = FALSE
          /\ s_out' = <<>>
          /\ s_end' = "interrupt"
          /\ s_errs' = 0
          /\ s_stop' = "interrupt"
    /\ UNCHANGED <<s_fg_ping, s_last_event_id, s_retry, s_recv>>
    /\ UNCHANGED <<dvars, mvars, tvars, cvars, kvars, pvars, rvars, hvars, qvars, lvars, xvars>>

\* one turn of "for v in f" with a line
ReadLine ==
    /\ s_pc = "streaming"
    /\ \E line \in Lines :
          LET k == field_name(line)
              v == field_value(line)
          IN
          /\ s_line' = line
          /\ IF line = BlankLine
             THEN /\ s_out' = flushed(s_event, s_data, s_event_id)
                  /\ s_event' = <<>>
                  /\ s_data' = <<>>
                  /\ s_event_id' = <<>>
                  /\ s_recv' = [s_recv EXCEPT !.given =
                                   IF s_out' # <<>> /\ truthy(s_event_id)
                                   THEN @ \cup {s_event_id} ELSE @]
                  /\ UNCHANGED <<s_last_event_id, s_retry, s_pc,
                                 s_open, s_end, s_errs>>
             ELSE IF colon(line) = 0
             THEN /\ LeaveLoop("malformed")
                  /\ UNCHANGED <<s_event, s_data, s_event_id,
                                 s_last_event_id, s_retry, s_recv>>
             ELSE IF k = <<>> /\ s_fg_ping
             THEN /\ s_event' = <<"ping">>
                  /\ s_out' = <<>>
                  /\ UNCHANGED <<s_data, s_event_id, s_last_event_id,
                                 s_retry, s_recv, s_pc, s_open, s_end, s_errs>>
             ELSE IF k = <<"event">>
             THEN /\ s_event' = v
                  /\ s_out' = <<>>
                  /\ UNCHANGED <<s_data, s_event_id, s_last_event_id,
                                 s_retry, s_recv, s_pc, s_open, s_end, s_errs>>
             ELSE IF k = <<"data">>
             THEN /\ Len(s_data) < MaxData
                  /\ s_data' = Append(s_data, v)
                  /\ s_out' = <<>>
                  /\ UNCHANGED <<s_event, s_event_id, s_last_event_id,
                                 s_retry, s_recv, s_pc, s_open, s_end, s_errs>>
             ELSE IF k = <<"id">>
             THEN /\ s_event_id' = id_field(v, s_last_event_id).event_id
                  /\ s_last_event_id' =
                        id_field(v, s_last_event_id).last_event_id
                  /\ s_recv' = [s_recv EXCEPT !.got = TRUE, !.id = v]
                  /\ s_out' = <<>>
                  /\ UNCHANGED <<s_event, s_data, s_retry, s_pc, s_open,
                                 s_end, s_errs>>
             ELSE IF k = <<"retry">>
             THEN IF is_int(v)
                  THEN /\ s_retry' = int(v)
                       /\ s_out' = <<>>
                       /\ UNCHANGED <<s_event, s_data, s_event_id,
                                      s_last_event_id, s_recv, s_pc, s_open,
                                      s_end, s_errs>>
                  ELSE /\ UNCHANGED <<s_event, s_data, s_event_id,
                                      s_last_event_id, s_retry, s_recv>>
                       /\ YieldError("ValueError")
             ELSE /\ s_out' = <<>>
                  /\ UNCHANGED <<s_event, s_data, s_event_id,
                                 s_last_event_id, s_retry, s_recv, s_pc,
                                 s_open, s_end, s_errs>>
    /\ UNCHANGED <<s_fg_ping, s_hdr, s_waited, s_nconn, s_attempt, s_stop>>
    /\ UNCHANGED <<dvars, mvars, tvars, cvars, kvars, pvars, rvars, hvars, qvars, lvars, xvars>>

\* the server closes the stream: the for loop has nothing more to take
EndOfStream ==
    /\ s_pc = "streaming"
    /\ LeaveLoop("eof")
    /\ UNCHANGED <<s_fg_ping, s_hdr, s_last_event_id, s_retry, s_event,
                   s_data, s_event_id, s_line, s_waited, s_nconn, s_attempt,
                   s_recv, s_stop>>
    /\ UNCHANGED <<dvars, mvars, tvars, cvars, kvars, pvars, rvars, hvars, qvars, lvars, xvars>>

\* reading raises (timeout, reset, incomplete read)
ReadError ==
    /\ s_pc = "streaming"
    /\ UNCHANGED <<s_fg_ping, s_hdr, s_last_event_id, s_retry, s_event,
                   s_data, s_event_id, s_line, s_waited, s_nconn, s_attempt,
                   s_recv, s_stop>>
    /\ YieldError("OSError")
    /\ UNCHANGED <<dvars, mvars, tvars, cvars, kvars, pvars, rvars, hvars, qvars, lvars, xvars>>

\* KeyboardInterrupt or SystemExit while reading: break out of the while loop
Interrupt ==
    /\ s_pc = "streaming"
    /\ s_pc' = "ended"
    /\ s_open' = FALSE
    /\ s_out' = <<>>
    /\ s_end' = "interrupt"
    /\ s_stop' = "interrupt"
    /\ UNCHANGED <<s_fg_ping, s_hdr, s_last_event_id, s_retry, s_event,
                   s_data, s_event_id, s_line, s_errs, s_waited, s_nconn,
                   s_attempt, s_recv>>
    /\ UNCHANGED <<dvars, mvars, tvars, cvars, kvars, pvars, rvars, hvars, qvars, lvars, xvars>>

\* time.sleep(retry / 1000.0 + random.random()): it returns, it refuses a
\* negative length (ValueError, and the bare except breaks), or it is
\* interrupted
Sleep ==
    /\ s_pc = "backoff"
    /\ \/ /\ ~negative_sleep(s_retry)
          /\ s_pc' = "connecting"
          /\ s_waited' = s_retry
          /\ UNCHANGED s_stop
       \/ /\ negative_sleep(s_retry)
          /\ s_pc' = "ended"
          /\ s_stop' = "sleep"
          /\ UNCHANGED s_waited
       \/ /\ s_pc' = "ended"
          /\ s_stop' = "interrupt"
          /\ UNCHANGED s_waited
    /\ s_out' = <<>>
    /\ UNCHANGED <<s_fg_ping, s_hdr, s_last_event_id, s_retry, s_event,
                   s_data, s_event_id, s_open, s_line, s_end, s_errs,
                   s_nconn, s_attempt, s_recv>>
    /\ UNCHANGED <<dvars, mvars, tvars, cvars, kvars, pvars, rvars, hvars, qvars, lvars, xvars>>

\* the generator stands at a yield: the one of an event in the for loop, or
\* the one of the error tuple
suspended == \/ s_pc = "streaming" /\ s_out # <<>>
             \/ s_pc = "yielded"

\* the consumer asks for the next item after the error tuple: the finally
\* clause closes the stream, and on to the sleep
Resume ==
    /\ s_pc = "yielded"
    /\ s_open' = FALSE
    /\ s_pc' = "backoff"
    /\ UNCHANGED <<s_fg_ping, s_hdr, s_last_event_id, s_retry, s_event,
                   s_data, s_event_id, s_line, s_out, s_end, s_errs,
                   s_waited, s_nconn, s_attempt, s_recv, s_stop>>
    /\ UNCHANGED <<dvars, mvars, tvars, cvars, kvars, pvars, rvars, hvars, qvars, lvars, xvars>>

\* the consumer closes the generator (g.close()): GeneratorExit is raised at
\* the yield, no except clause takes it, the finally clause closes the
\* stream
GeneratorClose ==
    /\ suspended
    /\ s_pc' = "ended"
    /\ s_open' = FALSE
    /\ s_stop' = "close"
    /\ s_out' = <<>>
    /\ UNCHANGED <<s_fg_ping, s_hdr, s_last_event_id, s_retry, s_event,
                   s_data, s_event_id, s_line, s_end, s_errs, s_waited,
                   s_nconn, s_attempt, s_recv>>
    /\ UNCHANGED <<dvars, mvars, tvars, cvars, kvars, pvars, rvars, hvars, qvars, lvars, xvars>>

NextS ==
    \/ Connect
    \/ ReadLine
    \/ EndOfStream
    \/ ReadError
    \/ Interrupt
    \/ Sleep
    \/ Resume
    \/ GeneratorClose

SpecS == SInit /\ [][NextS]_vars


------------------------------------------------------------------------------
(* Claims about the SSE client *)

\* the step takes the line l from the stream
Takes(l) == s_pc = "streaming" /\ s_pc' = "streaming" /\ s_line' = l

\* C18: a blank line yields exactly one event when an event name, a data
\* fragment or an id was accumulated since the previous flush, named
\* "message" when no event name was given and carrying the data fragments in
\* arrival order, and yields nothing otherwise; after it event, data and id
\* are reset. Field lines accumulate: event: ping names the event, each
\* data: line adds one fragment at the end.
C18_BlankLineFlushes ==
    [][ /\ Takes(BlankLine) =>
            /\ s_out' =
                  IF s_event # <<>> \/ s_data # <<>> \/ s_event_id # <<>>
                  THEN <<[event |-> IF s_event = <<>> THEN <<"message">>
                                    ELSE s_event,
                          data |-> s_data, id |-> s_event_id]>>
                  ELSE <<>>
            /\ s_event' = <<>>
            /\ s_data' = <<>>
            /\ s_event_id' = <<>>
        /\ Takes(<<"event", ":", "ping", "\n">>) =>
              (s_event' = <<"ping">> /\ s_out' = <<>>)
        /\ Takes(<<"data", ":", " ", "hello", "\n">>) =>
              (s_data' = Append(s_data, <<"hello">>) /\ s_out' = <<>>)
        /\ Takes(<<"id", ":", " ", "1", "\n">>) =>
              (s_event_id' = <<"1">> /\ s_out' = <<>>)
      ]_vars

\* event: ping, data: hello and a blank line gave ["ping", ["hello"], ""]
C18_Witness ==
    /\ s_line = BlankLine
    /\ s_pc = "streaming"
    /\ s_open
    /\ s_out = <<[event |-> <<"ping">>, data |-> << <<"hello">> >>,
                  id |-> <<>>]>>
    /\ s_event = <<>>
    /\ s_data = <<>>


\* C19: a connection attempt made after an id: field was received carries the
\* Last-Event-ID header with the id received last (no header, or an empty
\* one, when that id was empty), whatever was flushed and however many
\* reconnections there were; an attempt made before any id was received, the
\* caller having given none, carries no such header.
C19_LastEventIdSent ==
    s_nconn > 0 =>
        /\ s_attempt.got =>
              \/ s_attempt.hdr = s_attempt.id
              \/ s_attempt.id = <<>> /\ s_attempt.hdr = <<None>>
        /\ (~s_attempt.got /\ s_attempt.last = <<None>>) =>
              s_attempt.hdr = <<None>>

\* C20: a connection that ended by an I/O error or by end-of-stream has
\* yielded exactly one error tuple, carrying last_event_id, and the next
\* attempt is made only after a sleep of the retry interval in force (2000
\* unless a retry: field replaced it).
C20_ErrorTupleThenWait ==
    /\ s_end \in {"error", "eof"} => s_errs = 1
    /\ (s_end \in {"error", "eof"} /\ s_pc = "backoff") =>
          (s_out # <<>> /\ s_out[1].event = <<"error">>
              /\ s_out[1].id = s_last_event_id)
    /\ (s_pc = "connecting" /\ s_nconn > 0) => s_waited = s_retry
    /\ s_nconn > 1 => s_attempt.waited > 0


\* C21: the generator ends only by a foreground interrupt (or by its
\* consumer closing it), and then without an error tuple; nothing the
\* server sends and no failure of a connection ends it.
C21_EndsOnlyOnInterrupt ==
    s_pc = "ended" => (s_stop \in {"interrupt", "close"} /\ s_out = <<>>)


------------------------------------------------------------------------------
(* The multi-path server: MultiPathJSONRPCServer and its request handler  *)
(* (py2/SimpleJSONRPCServer.py), as serve_forever of jsonrpcsrv.py sets   *)
(* it up                                                                   *)

\* bound: POSTs one endpoint is followed through
MaxPosts == 2

Paths == {"/", "/RPC2", "/api", "/nope"}

\* rpc_paths of the handler class, and what serve_forever makes of it
DefaultRpcPaths == {"/", "/RPC2"}

\* the dispatch table mounted on every path: one registered function
RCfg == [funcs |-> {<<"a">>}, instance |-> <<>>, allow_dotted_names |-> FALSE]

\* bodies POSTed: a call of the registered function, a call of an unknown
\* method, bytes that are no JSON
RRequests ==
    { r \in Requests : r.kind = "garbage"
                       \/ (r.kind = "call" /\ r.method \in {<<"a">>, <<"_">>}) }

Http(status, complete, env) ==
    [status |-> status, complete |-> complete, env |-> env]

\* report_404: status 404, text/plain 'No such page'
report_404 == Http(404, TRUE, Envelope("text", "No such page", 0, NoMsg))

\* is_rpc_path_valid
is_rpc_path_valid(rpc_paths, path) ==
    IF rpc_paths # {} THEN path \in rpc_paths ELSE TRUE

\* MultiPathJSONRPCServer._marshaled_dispatch: the table of the path, and
\* Fault(1, "type:value") for whatever that raises, the KeyError of a path
\* with no table included
server_marshaled_dispatch(dispatchers, data, path, beh) ==
    IF path \notin dispatchers
    THEN [resp |-> Returned(fault_1(Msg("str", "KeyError", <<path>>)).env),
          ran |-> NoRan]
    ELSE LET r == _marshaled_dispatch(RCfg, data, beh) IN
         IF r.resp.kind = "raised"
         THEN [resp |-> Returned(fault_1(
                          Msg("str", "TypeError:not serializable", <<>>)).env),
               ran |-> r.ran]
         ELSE [resp |-> r.resp, ran |-> r.ran]

\* do_POST for a body with identity content-encoding: 404 for a path that
\* is not valid, else 200 with the response of the server's
\* _marshaled_dispatch; a function handed back as response has no len(), and
\* the handler dies after the status line
do_POST(rpc_paths, dispatchers, path, data, beh) ==
    IF ~is_rpc_path_valid(rpc_paths, path)
    THEN [http |-> report_404, ran |-> NoRan]
    ELSE LET r == server_marshaled_dispatch(dispatchers, data, path, beh) IN
         IF r.resp.kind = "raw"
         THEN [http |-> Http(200, FALSE, r.resp.env), ran |-> r.ran]
         ELSE [http |-> Http(200, TRUE, r.resp.env), ran |-> r.ran]

\* the server object as constructed; serve_forever empties rpc_paths, a
\* program that builds the server itself has the default of the class
RInit ==
    /\ DIdle
    /\ MIdle
    /\ TIdle
    /\ XIdle
    /\ LIdle
    /\ QIdle
    /\ HIdle
    /\ CIdle
    /\ KIdle
    /\ PIdle
    /\ SIdle
    /\ r_rpc_paths \in {{}, DefaultRpcPaths}
    /\ r_dispatchers = {}
    /\ r_pc = "setup"
    /\ r_req = [path |-> "", data |-> [kind |-> "none", method |-> NoneName,
                                       params |-> "", kwargs |-> "",
                                       code |-> 0, msg |-> NoMsg]]
    /\ r_resp = Http(0, FALSE, Envelope("", "", 0, NoMsg))
    /\ r_ran = NoRan
    /\ r_n = 0

\* server.add_dispatcher(path, d), called by init(server) or by the default
\* branch of serve_forever
AddDispatcher ==
    /\ r_pc = "setup"
    /\ \E path \in Paths \ {"/nope"} :
         r_dispatchers' = r_dispatchers \cup {path}
    /\ UNCHANGED <<r_rpc_paths, r_pc, r_req, r_resp, r_ran, r_n>>
    /\ UNCHANGED <<dvars, mvars, tvars, cvars, kvars, pvars, svars, hvars, qvars, lvars, xvars>>

\* server.serve_forever()
ServeForever ==
    /\ r_pc = "setup"
    /\ r_pc' = "serving"
    /\ UNCHANGED <<r_rpc_paths, r_dispatchers, r_req, r_resp, r_ran, r_n>>
    /\ UNCHANGED <<dvars, mvars, tvars, cvars, kvars, pvars, svars, hvars, qvars, lvars, xvars>>

\* one POST handled by a request thread
DoPOST ==
    /\ r_pc = "serving"
    /\ r_n < MaxPosts
    /\ \E path \in Paths, data \in RRequests, beh \in Behaviours :
         LET r == do_POST(r_rpc_paths, r_dispatchers, path, data, beh) IN
         /\ r_req' = [path |-> path, data |-> data]
         /\ r_resp' = r.http
         /\ r_ran' = r.ran
    /\ r_n' = r_n + 1
    /\ UNCHANGED <<r_rpc_paths, r_dispatchers, r_pc>>
    /\ UNCHANGED <<dvars, mvars, tvars, cvars, kvars, pvars, svars, hvars, qvars, lvars, xvars>>

NextR ==
    \/ AddDispatcher
    \/ ServeForever
    \/ DoPOST

SpecR == RInit /\ [][NextR]_vars


------------------------------------------------------------------------------
(* Claims about the multi-path server *)

\* what a client can tell responses apart by without reading message texts:
\* the HTTP status, result or error, and the Fault code
shape(http) == [status |-> http.status, tag |-> http.env.tag,
                code |-> http.env.code]

\* the response to a call of an unknown method on a mounted path
method_not_found ==
    do_POST({}, {"/"}, "/",
            [kind |-> "call", method |-> <<"_">>, params |-> "p",
             kwargs |-> "k", code |-> 0, msg |-> NoMsg],
            NoBeh).http

\* C22: a POST to a path with no dispatch table invokes no handler, and its
\* response differs from the response to an unknown method on a mounted
\* path in status, in kind or in Fault code.
C22_UnknownPathNotFound ==
    (r_n > 0 /\ r_req.path \notin r_dispatchers)
        => /\ r_ran = NoRan
           /\ shape(r_resp) # shape(method_not_found)


------------------------------------------------------------------------------
(* Transport.send_request: the framing of one request (ms71lib/_client.py) *)

\* bound: rows of a list, tuple, generator or readable body
MaxRows == 2

\* bound: bytes of one row
MaxRowLen == 2

\* encode_threshold: None, or a number of bytes (1400 in the class; 2 here,
\* so that bodies below, at and above it are sent)
Thresholds == {<<>>, <<2>>}

RowSeqs == UNION { [1..n -> 1..MaxRowLen] : n \in 0..MaxRows }

Body(kind, rows) == [kind |-> kind, rows |-> rows, gz |-> FALSE]

\* what a program passes as request_body: bytes (one row, or none when
\* empty), a str, None, a list or a tuple of bytes rows, an object with
\* read(), a generator
Bodies ==
    { Body(k, r) : k \in {"bytes", "str"},
                   r \in { r \in RowSeqs : Len(r) <= 1 } }
    \cup { Body(k, r) : k \in {"list", "tuple", "readable", "generator"},
                        r \in RowSeqs }
    \cup { Body("none", <<>>) }

RECURSIVE total(_)
\* the bytes of all rows
total(rows) == IF rows = <<>> THEN 0 ELSE rows[1] + total(Tail(rows))

\* len(request_body), -1 where Python has none
py_len(body) ==
    CASE body.kind \in {"bytes", "str"} -> total(body.rows)
      [] body.kind \in {"list", "tuple"} -> Len(body.rows)
      [] OTHER -> -1

\* bool(request_body)
truthy_body(body) ==
    CASE body.kind \in {"bytes", "str", "list", "tuple"} -> body.rows # <<>>
      [] body.kind = "none" -> FALSE
      [] OTHER -> TRUE

\* the sizes gzip can give n bytes: header and trailer around a deflate
\* stream that is shorter or longer than the data
gzip_lengths(n) == {20, n + 23}

\* gzip_encode: one bytes value, whatever the body was
gzip_encode(body, glen) == [kind |-> "bytes", rows |-> <<glen>>, gz |-> TRUE]

Header(name, value) == <<name, value>>

\* the keys of OrderedDict(pairs[1..n]) in order
RECURSIVE od_keys(_, _)
od_keys(pairs, n) ==
    IF n = 0 THEN <<>>
    ELSE LET before == od_keys(pairs, n - 1) IN
         IF \E i \in 1..Len(before) : before[i] = pairs[n][1]
         THEN before
         ELSE Append(before, pairs[n][1])

\* OrderedDict(pairs).items(): every key once, where it came first, with the
\* value that came last
ordered_dict(pairs) ==
    LET keys == od_keys(pairs, Len(pairs))
        last(k) == CHOOSE i \in 1..Len(pairs) :
                     /\ pairs[i][1] = k
                     /\ \A j \in (i + 1)..Len(pairs) : pairs[j][1] # k
    IN  [i \in 1..Len(keys) |-> Header(keys[i], pairs[last(keys[i])][2])]

\* a faulty variant of compressed: a list or a tuple is compressed only when
\* it is longer than the threshold
compressed_by_length_only(gzip, threshold, body) ==
    /\ gzip
    /\ threshold # <<>>
    /\ threshold[1] < py_len(body)

\* is the body compressed: gzip is there, and the body is a list or a
\* tuple, or longer than a threshold that is set
compressed(gzip, threshold, body) ==
    /\ gzip
    /\ \/ body.kind \in {"list", "tuple"}
       \/ (threshold # <<>> /\ threshold[1] < py_len(body))

\* the length the Content-Length header is given: len(request_body)
content_length(body) == py_len(body)

Outgoing(outcome, method, headers, body, encode_chunked) ==
    [outcome |-> outcome, method |-> method, headers |-> headers,
     body |-> body, encode_chunked |-> encode_chunked]

\* send_request with _http_method "POST", no _extra_headers, no _api_key;
\* glen is the size gzip gives the body. len() of None and gzip or
\* endheaders of a str raise TypeError
send_request(gzip, threshold, api_headers, body, glen) ==
    LET method == IF truthy_body(body) THEN "POST" ELSE "GET"
        h0 == (IF gzip THEN <<Header("Accept-Encoding", "gzip")>> ELSE <<>>)
              \o <<Header("Content-Type", "application/json"),
                   Header("User-Agent", "agent")>>
        encode_chunked == body.kind \in {"readable", "generator"}
        gz == ~encode_chunked /\ compressed(gzip, threshold, body)
        h1 == IF gz THEN Append(h0, Header("Content-Encoding", "gzip"))
              ELSE h0
        b1 == IF gz THEN gzip_encode(body, glen) ELSE body
        h2 == IF encode_chunked
              THEN Append(h1, Header("Transfer-Encoding", "chunked"))
              ELSE Append(h1, Header("Content-Length",
                                     ToString(content_length(b1))))
        h3 == IF api_headers # <<>> THEN ordered_dict(h2 \o api_headers)
              ELSE h2
    IN  IF body.kind \in {"none", "str"}
        THEN Outgoing("raised", method, <<>>, body, FALSE)
        ELSE Outgoing("sent", method, h3, b1, encode_chunked)

\* the payload bytes endheaders puts on the wire: the bytes, every row of
\* an iterable, every block read() gives
transmitted(body) == total(body.rows)

\* headers a program gives by proxy("request")(body, handler, headers)
ApiHeaders ==
    { <<>>,
      <<Header("X-Trace", "1")>>,
      <<Header("Content-Type", "text/plain"), Header("X-Trace", "1")>> }

\* a transport as constructed, in a build with or without gzip
HInit ==
    /\ DIdle
    /\ MIdle
    /\ TIdle
    /\ XIdle
    /\ LIdle
    /\ QIdle
    /\ CIdle
    /\ KIdle
    /\ PIdle
    /\ SIdle
    /\ RIdle
    /\ h_gzip \in BOOLEAN
    /\ h_threshold \in Thresholds
    /\ h_api_headers = <<>>
    /\ h_body = Body("none", <<>>)
    /\ h_sent = Outgoing("none", "", <<>>, Body("none", <<>>), FALSE)
    /\ h_n = 0

\* bound: requests one transport is followed through
MaxSends == 2

\* one send_request, with the headers the caller set before it
SendRequestBody ==
    /\ h_n < MaxSends
    /\ \E body \in Bodies, api \in ApiHeaders :
         \E glen \in gzip_lengths(total(body.rows)) :
           /\ h_api_headers' = api
           /\ h_body' = body
           /\ h_sent' = send_request(h_gzip, h_threshold, api, body, glen)
    /\ h_n' = h_n + 1
    /\ UNCHANGED <<h_gzip, h_threshold>>
    /\ UNCHANGED <<dvars, mvars, tvars, cvars, kvars, pvars, svars, rvars, qvars, lvars, xvars>>

NextH == SendRequestBody

SpecH == HInit /\ [][NextH]_vars


------------------------------------------------------------------------------
(* Claims about the framing of a request *)

has_header(headers, name) == \E i \in 1..Len(headers) : headers[i][1] = name

header_values(headers, name) ==
    { headers[i][2] : i \in { j \in 1..Len(headers) : headers[j][1] = name } }

\* the two cases of a non-streaming body: a list or tuple of at least the
\* threshold carries Content-Encoding: gzip and a compressed body; bytes
\* below the threshold carry no Content-Encoding and go out unchanged
gzip_by_kind_and_size ==
    /\ (/\ h_body.kind \in {"list", "tuple"}
        /\ h_threshold # <<>>
        /\ total(h_body.rows) >= h_threshold[1])
          => /\ header_values(h_sent.headers, "Content-Encoding") = {"gzip"}
             /\ h_sent.body.gz
    /\ (/\ h_body.kind = "bytes"
        /\ h_threshold # <<>>
        /\ total(h_body.rows) < h_threshold[1])
          => /\ ~has_header(h_sent.headers, "Content-Encoding")
             /\ h_sent.body = h_body

\* C23 as stated: whatever the build, a sent list or tuple of at least the
\* threshold is compressed and sent bytes below the threshold are not.
C23_GzipByKindAndSize ==
    h_sent.outcome = "sent" => gzip_by_kind_and_size

\* C23, amended: the same in a build where the gzip module could be
\* imported; without it nothing is compressed.
C23_GzipWhenAvailable ==
    (h_sent.outcome = "sent" /\ h_gzip) => gzip_by_kind_and_size

C23_Witness ==
    /\ h_gzip
    /\ h_sent.outcome = "sent"
    /\ h_body.kind = "tuple"
    /\ h_threshold # <<>>
    /\ Len(h_body.rows) < h_threshold[1]
    /\ total(h_body.rows) >= h_threshold[1]
    /\ h_sent.body.gz
    /\ has_header(h_sent.headers, "Content-Encoding")

streaming(body) == body.kind \in {"readable", "generator"}

\* C30: a request that was sent has Content-Length or Transfer-Encoding:
\* chunked and not both; a streaming body is chunked, without
\* Content-Length and without Content-Encoding: gzip; any other body has a
\* Content-Length that is the number of bytes put on the wire.
C30_OneFraming ==
    h_sent.outcome = "sent" =>
      LET cl == header_values(h_sent.headers, "Content-Length")
          te == header_values(h_sent.headers, "Transfer-Encoding")
      IN  /\ (cl = {}) # (te = {})
          /\ streaming(h_body)
               => /\ te = {"chunked"}
                  /\ ~has_header(h_sent.headers, "Content-Encoding")
                  /\ h_sent.encode_chunked
          /\ ~streaming(h_body)
               => cl = {ToString(transmitted(h_sent.body))}


------------------------------------------------------------------------------
(* Claims about Binary in the client codec *)

\* C24: dumps of a result envelope holding Binary(b) gives the document
\* {"result": [{"__binary__": base64 of b}]}, and loads of that document
\* returns the Binary with the same bytes.
C24_BinaryRoundTrip ==
    /\ (c_env = Env("result", NoVal, PList(<<PBinary>>), NoVal, NoVal, NoVal)
        /\ c_pc # "start")
          => c_wire = BinaryResult
    /\ (c_wire = BinaryResult /\ c_via = "loads")
          => (c_dec.kind = "return" /\ c_dec.params = PList(<<PBinary>>))


------------------------------------------------------------------------------
(* The UDP log queue and its flush loop (libs/utils.py, __main__.py)      *)

\* bound: ticks of the clock
MaxTime == 4

\* bound: datagrams received
MaxPuts == 3

\* the arguments of qRead, in ticks and records (10 s and 10000 records in
\* __main__.py)
Interval == 2
Size == 2

\* a faulty variant of due: both the time and the size are asked for
due_both(time_dif, size) == time_dif >= Interval /\ size >= Size

\* the test of the loop: time_dif >= interval or q_size >= size
due(time_dif, size) == time_dif >= Interval \/ size >= Size

\* main() has made the queue, prepare_server has started qRead, which has
\* read the clock into start_time
QInit ==
    /\ DIdle
    /\ MIdle
    /\ TIdle
    /\ XIdle
    /\ LIdle
    /\ CIdle
    /\ KIdle
    /\ PIdle
    /\ SIdle
    /\ RIdle
    /\ HIdle
    /\ q_now = 0
    /\ q_queue = <<>>
    /\ q_put = 0
    /\ q_pc = "check"
    /\ q_start_time = 0
    /\ q_size = 0
    /\ q_batch = <<>>
    /\ q_flushed_at = 0
    /\ q_nflush = 0
    /\ q_full_data = <<>>
    /\ q_sunk = <<>>

\* time passes
Tick ==
    /\ q_now < MaxTime
    /\ q_now' = q_now + 1
    /\ UNCHANGED <<q_queue, q_put, q_pc, q_start_time, q_size, q_batch,
                   q_flushed_at, q_nflush>>
    /\ UNCHANGED <<q_full_data, q_sunk>>
    /\ UNCHANGED <<dvars, mvars, tvars, cvars, kvars, pvars, svars, rvars,
                   hvars, lvars, xvars>>

\* UDPHandler.handle: the record of one datagram is put on the queue
Handle ==
    /\ q_put < MaxPuts
    /\ q_put' = q_put + 1
    /\ q_queue' = Append(q_queue, q_put + 1)
    /\ UNCHANGED <<q_now, q_pc, q_start_time, q_size, q_batch, q_flushed_at,
                   q_nflush>>
    /\ UNCHANGED <<q_full_data, q_sunk>>
    /\ UNCHANGED <<dvars, mvars, tvars, cvars, kvars, pvars, svars, rvars,
                   hvars, lvars, xvars>>

\* qRead reads the clock and the size of the queue, and tests them
QCheck ==
    /\ q_pc = "check"
    /\ q_size' = Len(q_queue)
    /\ q_pc' = IF due(q_now - q_start_time, Len(q_queue)) THEN "flush"
               ELSE "sleep"
    /\ UNCHANGED <<q_now, q_queue, q_put, q_start_time, q_batch,
                   q_flushed_at, q_nflush>>
    /\ UNCHANGED <<q_full_data, q_sunk>>
    /\ UNCHANGED <<dvars, mvars, tvars, cvars, kvars, pvars, svars, rvars,
                   hvars, lvars, xvars>>

\* qRead restarts start_time, takes q_size records off the queue and gives
\* them to saveD.pull; when pull cannot start its thread the exception is
\* printed and the sleep is skipped
QFlush ==
    /\ q_pc = "flush"
    /\ q_start_time' = q_now
    /\ q_batch' = SubSeq(q_queue, 1, q_size)
    /\ q_queue' = SubSeq(q_queue, q_size + 1, Len(q_queue))
    /\ q_flushed_at' = q_now
    /\ q_nflush' = q_nflush + 1
    /\ q_pc' \in {"sleep", "check"}
    /\ UNCHANGED <<q_now, q_put, q_size>>
    /\ q_sunk' = Append(q_sunk, q_batch')
    /\ UNCHANGED q_full_data
    /\ UNCHANGED <<dvars, mvars, tvars, cvars, kvars, pvars, svars, rvars,
                   hvars, lvars, xvars>>

\* time.sleep(1/100)
QSleep ==
    /\ q_pc = "sleep"
    /\ q_pc' = "check"
    /\ UNCHANGED <<q_now, q_queue, q_put, q_start_time, q_size, q_batch,
                   q_flushed_at, q_nflush>>
    /\ UNCHANGED <<q_full_data, q_sunk>>
    /\ UNCHANGED <<dvars, mvars, tvars, cvars, kvars, pvars, svars, rvars,
                   hvars, lvars, xvars>>

\* a faulty variant of QGet: the record is read and left on the queue
QGet_peek ==
    /\ q_pc = "drain"
    /\ Len(q_full_data) < q_size
    /\ q_queue # <<>>
    /\ q_full_data' = Append(q_full_data, Head(q_queue))
    /\ UNCHANGED q_queue
    /\ UNCHANGED <<q_now, q_put, q_pc, q_start_time, q_size, q_batch,
                   q_flushed_at, q_nflush, q_sunk>>
    /\ UNCHANGED <<dvars, mvars, tvars, cvars, kvars, pvars, svars, rvars,
                   hvars, lvars, xvars>>

\* the flush of qRead step by step, so that handlers run between its
\* steps.  First start_time = time.time() and full_data = []
QDrainStart ==
    /\ q_pc = "flush"
    /\ q_start_time' = q_now
    /\ q_full_data' = <<>>
    /\ q_pc' = "drain"
    /\ UNCHANGED <<q_now, q_queue, q_put, q_size, q_batch, q_flushed_at,
                   q_nflush, q_sunk>>
    /\ UNCHANGED <<dvars, mvars, tvars, cvars, kvars, pvars, svars, rvars,
                   hvars, lvars, xvars>>

\* one turn of "for i in range(q_size)": queue.get() waits while the queue
\* is empty, then takes the record at its head
QGet ==
    /\ q_pc = "drain"
    /\ Len(q_full_data) < q_size
    /\ q_queue # <<>>
    /\ q_full_data' = Append(q_full_data, Head(q_queue))
    /\ q_queue' = Tail(q_queue)
    /\ UNCHANGED <<q_now, q_put, q_pc, q_start_time, q_size, q_batch,
                   q_flushed_at, q_nflush, q_sunk>>
    /\ UNCHANGED <<dvars, mvars, tvars, cvars, kvars, pvars, svars, rvars,
                   hvars, lvars, xvars>>

\* the for loop is through: saveD.pull(full_data); when pull cannot start
\* its thread the exception is printed and the sleep is skipped
QPull ==
    /\ q_pc = "drain"
    /\ Len(q_full_data) = q_size
    /\ q_batch' = q_full_data
    /\ q_sunk' = Append(q_sunk, q_full_data)
    /\ q_full_data' = <<>>
    /\ q_flushed_at' = q_now
    /\ q_nflush' = q_nflush + 1
    /\ q_pc' \in {"sleep", "check"}
    /\ UNCHANGED <<q_now, q_queue, q_put, q_start_time, q_size>>
    /\ UNCHANGED <<dvars, mvars, tvars, cvars, kvars, pvars, svars, rvars,
                   hvars, lvars, xvars>>

NextQ ==
    \/ Tick
    \/ Handle
    \/ QCheck
    \/ QFlush
    \/ QSleep

SpecQ == QInit /\ [][NextQ]_vars

\* the loop with the flush taken step by step
NextQD ==
    \/ Tick
    \/ Handle
    \/ QCheck
    \/ QDrainStart
    \/ QGet
    \/ QPull
    \/ QSleep

SpecQD == QInit /\ [][NextQD]_vars


------------------------------------------------------------------------------
(* Claims about the flush loop *)

\* the time since the previous flush has reached the interval, or the queue
\* holds at least size records
flush_is_due == q_now - q_flushed_at >= Interval \/ Len(q_queue) >= Size

\* C25: a batch is handed to the sink only when a flush is due, a test of
\* the loop made when a flush is due never goes on to the sleep, and the
\* step that hands the batch over restarts the timer and takes the records
\* from the head of the queue.
C25_FlushWhenDue ==
    [][ /\ (q_nflush' # q_nflush)
             => /\ flush_is_due
                /\ q_start_time' = q_now
                /\ q_batch' \o q_queue' = q_queue
        /\ (q_pc = "check" /\ q_pc' = "sleep") => ~flush_is_due
      ]_vars

\* a flush by size before the interval has passed, then one by time
C25_Witness ==
    /\ q_nflush = 2
    /\ q_batch = <<>>
    /\ q_put >= Size
    /\ q_queue = <<>>
    /\ q_flushed_at = Interval + 1


------------------------------------------------------------------------------
(* Claims about failures in the transport (SpecT) *)

\* the call has ended with an exception that is no Fault and no HTTP error
\* status: the connection itself failed
ConnectionFailed ==
    /\ t_pc = "idle"
    /\ t_result.kind = "raise"
    /\ t_result.exc \notin {"Fault", "ProtocolError"}

\* every request of the call was sent for the host of the call and routed
\* to the other host its _hosts301 entry names
routed_by_remap ==
    /\ t_reqs # <<>>
    /\ \A k \in DOMAIN t_reqs :
          /\ ~t_reqs[k].reissue
          /\ t_reqs[k].map \notin {None, t_reqs[k].arg}
          /\ t_reqs[k].to = t_reqs[k].map

\* C26: when a call that was routed to the new host of a sticky remap has
\* failed, the remap of its host is gone, so that the next call for the
\* host goes to the host itself.
C26_RemapDroppedOnFailure ==
    (ConnectionFailed /\ routed_by_remap) => t_hosts301[t_call.host] = None

\* an attempt has just failed with an exception that is no Fault: the
\* exception has reached the caller, or the retry is about to begin
attempt_failed ==
    /\ t_fails # <<>>
    /\ t_fails[Len(t_fails)] # "Fault"
    /\ \/ t_pc = "idle" /\ t_result.kind = "raise"
       \/ t_pc = "send1" /\ t_call.i = 1

\* C27: after an attempt that failed with anything but a Fault the cache is
\* empty and the connection of the attempt closed, and no request of the
\* retry goes out on a connection object the first attempt used.
C27_FailedConnectionDropped ==
    /\ attempt_failed
          => /\ t_conn = NoConn
             /\ t_reqs[Len(t_reqs)].conn \in t_closed
    /\ \A j, k \in DOMAIN t_reqs :
          t_reqs[j].attempt = 0 /\ t_reqs[k].attempt = 1
             => t_reqs[j].conn # t_reqs[k].conn


\* the requests of attempt a of the call
requests_of(a) == { k \in DOMAIN t_reqs : t_reqs[k].attempt = a }

\* the first call on a transport
FirstRequest(host) == t_ncalls = 0 /\ Request(host)

NextTOne ==
    \/ \E host \in Hosts : FirstRequest(host)
    \/ SendRequest
    \/ GetResponse
    \/ GetResponse2
    \/ ParseResponse
    \/ ErrorResponse
    \/ Close

\* one call on a new transport. The steps of a call are socket operations
\* under the connection's timeout: each of them ends, with an answer or
\* with an exception
SpecTOne ==
    /\ TInit
    /\ [][NextTOne]_vars
    /\ WF_vars(SendRequest)
    /\ WF_vars(GetResponse)
    /\ WF_vars(GetResponse2)
    /\ WF_vars(ParseResponse)
    /\ WF_vars(ErrorResponse)

\* after the answer to the re-issue the attempt goes on to the body, and
\* after the body it is over: no step leads back to a send of the attempt
no_second_hop ==
    /\ t_pc = "resp2" => t_pc' \in {"resp2", "parse", "error", "idle", "send1"}
    /\ t_pc \in {"parse", "error"}
          => t_pc' \in {"parse", "error", "idle", "send1"}
    /\ t_pc' = "send1" /\ t_pc # "idle" => t_call.i = 0 /\ t_call'.i = 1

\* C28: an attempt sends at most two requests, the second one being the one
\* re-issue to the Location host; the answer to the re-issue is never
\* followed by another request of the same attempt, whatever its Location;
\* a call sends at most four requests, and every call ends.
C28_OneHopAndTerminates ==
    /\ [](/\ \A a \in {0, 1} :
               /\ Cardinality(requests_of(a)) <= 2
               /\ Cardinality({ k \in requests_of(a) :
                                  t_reqs[k].reissue }) <= 1
          /\ Len(t_reqs) <= 4)
    /\ [][no_second_hop]_vars
    /\ (t_pc # "idle" ~> t_pc = "idle")

\* a call that took four requests: both attempts were redirected, by two
\* hosts that name each other
C28_Witness ==
    /\ Len(t_reqs) = 4
    /\ t_pc = "idle"
    /\ t_reqs[2].reissue /\ t_reqs[4].reissue
    /\ t_reqs[1].arg = "A" /\ t_reqs[2].loc.host = "B"
    /\ t_reqs[3].to = "B" /\ t_reqs[4].loc.host = "A"


------------------------------------------------------------------------------
(* Claims about the workers of a batch (SpecM) *)

\* the for loop is through with the batch
loop_done == m_pc = "loop" /\ m_idx > Len(m_calls)

\* a step of a worker leaves alone what system_multicall works on, and a
\* step of system_multicall leaves the workers it started as they are
workers_apart ==
    \A k \in 1..Len(m_threads) :
       k <= Len(m_threads')
          => /\ m_threads'[k].st # m_threads[k].st
                   => UNCHANGED <<m_pc, m_idx, m_results, m_emit>>
             /\ ~UNCHANGED <<m_pc, m_idx, m_results>>
                   => m_threads'[k] = m_threads[k] /\ m_pushes' = m_pushes

\* C29: system_multicall can return as soon as its loop is through, whatever
\* the workers of its async entries are doing; the workers and the loop
\* take their steps without touching each other's state.
C29_ReturnDoesNotWait ==
    /\ [](loop_done => ENABLED MulticallReturn)
    /\ [][workers_apart]_vars

\* the batch has returned; of its two async entries the later one has made
\* its completion push, the handler of the earlier one has not run yet
C29_Witness ==
    /\ m_pc = "returned"
    /\ Len(m_pushes) = 1
    /\ \E j, k \in 1..Len(m_threads) :
          /\ m_threads[j].entry < m_threads[k].entry
          /\ m_threads[j].st = "started"
          /\ m_threads[j].emit # <<>>
          /\ m_threads[k].st = "done"
          /\ m_pushes[1].entry = m_threads[k].entry


------------------------------------------------------------------------------
(* Claims about the class of the connections (SpecT) *)

\* the request went out on a connection object that its make_connection
\* created
created_by_make_connection(r) == r.conn = r.nconn + 1

\* the step is the one of single_request that follows a Location of the
\* other scheme
cross_scheme_redirect ==
    /\ t_pc = "resp1"
    /\ t_pc' = "send2"
    /\ t_loc'.https # t_safe

\* a connection object of the other class enters the cache only in the step
\* that follows a cross-scheme Location, and it has the class of the target
only_redirect_gives_other_class ==
    (t_pc # "idle" /\ t_conn'.id # 0 /\ t_conn'.id # t_conn.id
         /\ t_conn'.secure # t_safe)
       => /\ cross_scheme_redirect
          /\ t_conn'.host = t_loc'.host
          /\ t_conn'.secure = t_loc'.https

\* C32: every connection make_connection creates has the class of the
\* transport, remapped host or not; a connection of the other class is
\* created only in the step that follows a cross-scheme Location.
C32_OwnClassExceptAtRedirect ==
    /\ [](\A n \in 1..Len(t_reqs) :
             created_by_make_connection(t_reqs[n])
                => t_reqs[n].secure = t_safe)
    /\ [][only_redirect_gives_other_class]_vars

\* a cross-scheme redirect was followed on a connection of the target's
\* class, the attempt failed afterwards, and the second attempt reaches the
\* remapped host on a new connection of the transport's own class
C32_Witness ==
    /\ Len(t_reqs) >= 3
    /\ t_reqs[2].reissue
    /\ t_reqs[2].sent
    /\ t_reqs[2].secure # t_safe
    /\ t_reqs[2].loc.https # t_safe
    /\ t_reqs[3].attempt = 1
    /\ t_reqs[3].arg = t_call.host
    /\ t_reqs[3].map = t_reqs[2].to
    /\ t_reqs[3].to = t_reqs[2].to
    /\ t_reqs[3].to # t_reqs[3].arg
    /\ created_by_make_connection(t_reqs[3])
    /\ t_reqs[3].secure = t_safe


------------------------------------------------------------------------------
(* Claims about a failed invocation of the client MultiCall (SpecK) *)

\* the step is an invocation of the MultiCall
invocation_step == Len(k_sent') = Len(k_sent) + 1

\* the calls added since the last invocation
added_since == LET segs == segments(k_hist, <<>>) IN segs[Len(segs)]

\* an invocation that fails leaves the list empty and gives no results; the
\* invocation after a failed one sends the calls added since, and only them
failed_invocation_drains ==
    invocation_step =>
        /\ k_raised' # None => (k_call_list' = <<>> /\ k_results' = NoVal)
        /\ k_raised # None =>
              k_sent'[Len(k_sent')] = marshalled_list(added_since)

\* C33: the batch is emptied before the request is sent, so after a failed
\* invocation the list is empty and the calls of the failed batch are not
\* sent by the next invocation.
C33_FailedBatchIsLost ==
    /\ [][failed_invocation_drains]_vars
    /\ [](k_raised # None /\ k_hist[Len(k_hist)] = Invoked
             => k_call_list = <<>>)

\* an invocation with two calls in the batch has failed, and the batch is
\* empty
C33_Witness ==
    /\ Len(k_sent) = 1
    /\ Len(k_sent[1]) = 2
    /\ k_raised \in InvokeFailures
    /\ k_hist[Len(k_hist)] = Invoked
    /\ k_call_list = <<>>


------------------------------------------------------------------------------
(* Claims about the SSE client across connections (SpecS) *)

IdLine == <<"id", ":", " ", "1", "\n">>

\* C34: last_event_id is set when the id: line is taken, with nothing
\* yielded, and an attempt made after an id was received names that id in
\* Last-Event-ID also when no event with that id has been yielded.
C34_IdRememberedAtParse ==
    /\ [][Takes(IdLine) =>
             /\ s_last_event_id' = <<"1">>
             /\ s_out' = <<>>
             /\ s_recv'.given = s_recv.given]_vars
    /\ [](s_nconn > 0 /\ s_attempt.got /\ truthy(s_attempt.id)
             /\ s_attempt.id \notin s_attempt.given
               => s_attempt.hdr = s_attempt.id)

\* the connection open now was made with Last-Event-ID: 1, and no event
\* with an id had been yielded before it
C34_Witness ==
    /\ s_nconn >= 2
    /\ s_pc = "streaming"
    /\ s_attempt.hdr = <<"1">>
    /\ s_attempt.last = <<"1">>
    /\ s_attempt.given = {}

\* the step ends the connection
connection_ends ==
    s_pc = "streaming" /\ s_pc' \in {"yielded", "backoff", "ended"}

\* C35: the end of a connection yields no event, only the error tuple or
\* nothing; a new connection starts with nothing accumulated, so that what
\* a blank line yields was received on the connection it came on.
C35_NoPartialEvent ==
    /\ [][connection_ends =>
             (s_out' = <<>> \/ s_out'[1].event = <<"error">>)]_vars
    /\ [](s_pc = "streaming" /\ s_line = <<>> =>
             (s_event = <<>> /\ s_data = <<>> /\ s_event_id = <<>>))

\* id: 1 was received before this connection and never flushed; the event
\* yielded on this connection has its data and no id
C35_Witness ==
    /\ s_nconn = 2
    /\ s_pc = "streaming"
    /\ s_attempt.id = <<"1">>
    /\ s_attempt.given = {}
    /\ s_recv.id = <<"1">>
    /\ s_line = BlankLine
    /\ s_out = <<Tuple(<<"message">>, << <<"hello">> >>, <<>>)>>

\* C36: the stream is open only while the generator is in the for loop or
\* suspended at a yield; it is closed when the sleep starts, when the next
\* urlopen is made and when the generator has ended, however the connection
\* ended; a stream is opened only by the urlopen of a new attempt.
C36_OneOpenStream ==
    /\ [](s_pc \in {"backoff", "connecting", "ended"} => ~s_open)
    /\ [][(s_open' /\ ~s_open) => s_nconn' = s_nconn + 1]_vars

\* the consumer closed the generator at the yield of an event of the second
\* connection, and the stream is closed
C36_Witness ==
    /\ s_pc = "ended"
    /\ s_stop = "close"
    /\ s_nconn >= 2
    /\ s_end = "none"
    /\ s_line = BlankLine
    /\ ~s_open


------------------------------------------------------------------------------
(* Claims about the queue between the handlers and qRead (SpecQD) *)

\* the batches given to the sink, one after the other
RECURSIVE handed(_)
handed(batches) ==
    IF batches = <<>> THEN <<>>
    ELSE Head(batches) \o handed(Tail(batches))

\* C37: the records given to the sink, those in the batch being filled and
\* those on the queue are, in this order, the records put so far, each once
\* and in the order of the puts; the get of the for loop always finds a
\* record; the batch given to the sink has the size read at the check, and
\* what has arrived since stays on the queue.
C37_EveryRecordOnceInOrder ==
    /\ [](handed(q_sunk) \o q_full_data \o q_queue
             = [i \in 1..q_put |-> i])
    /\ []((q_pc = "drain" /\ Len(q_full_data) < q_size) => q_queue # <<>>)
    /\ [][q_nflush' # q_nflush =>
             /\ Len(q_batch') = q_size
             /\ q_sunk' = Append(q_sunk, q_full_data)
             /\ q_queue' = q_queue]_vars

\* the batch of two is half filled, and a third record has arrived since
\* the size was read
C37_Witness ==
    /\ q_pc = "drain"
    /\ q_size = 2
    /\ q_full_data = <<1>>
    /\ q_queue = <<2, 3>>


------------------------------------------------------------------------------
(* A task of lock.start and its _ThreadResult (ms71lib/lock.py).  Two       *)
(* threads work on the object without a lock: the worker that start() made, *)
(* and the thread that holds start()'s return value and calls done() and    *)
(* wait() on it.  A step is one read or one write of a field.               *)

\* bound: calls of done() and wait() the holder makes
MaxOps == 3

LThreads == {"worker", "holder"}

\* where a thread goes on when its __done returns
after_done(self) == IF self = "worker" THEN "fin" ELSE "idle"

Invocation(cb, arg, by) == [cb |-> cb, arg |-> arg, by |-> by]

\* start() has made the _ThreadResult and started the thread
LInit ==
    /\ DIdle
    /\ MIdle
    /\ TIdle
    /\ XIdle
    /\ CIdle
    /\ KIdle
    /\ PIdle
    /\ SIdle
    /\ RIdle
    /\ HIdle
    /\ QIdle
    /\ XIdle
    /\ l_result = "None"
    /\ l_error = FALSE
    /\ l_isReady = 0
    /\ l_isWait = FALSE
    /\ l_qWait = 0
    /\ l_resolve = FALSE
    /\ l_reject = FALSE
    /\ l_pc = [worker |-> "run", holder |-> "idle"]
    /\ l_calls = <<>>
    /\ l_nops = 0

LOthers == <<dvars, mvars, tvars, cvars, kvars, pvars, svars, rvars, hvars,
             qvars, xvars>>

\* _f: func returns or raises, and __call__ stores result and error
WorkerCall ==
    /\ l_pc.worker = "run"
    /\ \/ l_result' = "value" /\ l_error' = FALSE
       \/ l_result' = "None" /\ l_error' = TRUE
    /\ l_pc' = [l_pc EXCEPT !.worker = "c163"]
    /\ UNCHANGED <<l_isReady, l_isWait, l_qWait, l_resolve, l_reject,
                   l_calls, l_nops>>
    /\ UNCHANGED LOthers

\* __call__: self.__isReady = 1, and on to __done
WorkerReady ==
    /\ l_pc.worker = "c163"
    /\ l_isReady' = 1
    /\ l_pc' = [l_pc EXCEPT !.worker = "d167"]
    /\ UNCHANGED <<l_result, l_error, l_isWait, l_qWait, l_resolve, l_reject,
                   l_calls, l_nops>>
    /\ UNCHANGED LOthers

\* done(resolve, reject): self.__resolve is set, to resolve or to a lambda
DoneResolve ==
    /\ l_pc.holder = "idle"
    /\ l_nops < MaxOps
    /\ l_nops' = l_nops + 1
    /\ l_resolve' = TRUE
    /\ l_pc' = [l_pc EXCEPT !.holder = "d154"]
    /\ UNCHANGED <<l_result, l_error, l_isReady, l_isWait, l_qWait, l_reject,
                   l_calls>>
    /\ UNCHANGED LOthers

\* done: self.__reject is set, and on to __done
DoneReject ==
    /\ l_pc.holder = "d154"
    /\ l_reject' = TRUE
    /\ l_pc' = [l_pc EXCEPT !.holder = "d167"]
    /\ UNCHANGED <<l_result, l_error, l_isReady, l_isWait, l_qWait,
                   l_resolve, l_calls, l_nops>>
    /\ UNCHANGED LOthers

\* __done: if self.__isReady == 1
DoneTest(self) ==
    /\ l_pc[self] = "d167"
    /\ l_pc' = [l_pc EXCEPT ![self] = IF l_isReady = 1 THEN "d168"
                                      ELSE after_done(self)]
    /\ UNCHANGED <<l_result, l_error, l_isReady, l_isWait, l_qWait,
                   l_resolve, l_reject, l_calls, l_nops>>
    /\ UNCHANGED LOthers

\* __done: if self.__error: if self.__reject / else: if self.__resolve
DoneChoose(self) ==
    /\ l_pc[self] = "d168"
    /\ l_pc' = [l_pc EXCEPT ![self] =
                  IF l_error
                  THEN (IF l_reject THEN "d170" ELSE "d176")
                  ELSE (IF l_resolve THEN "d174" ELSE "d176")]
    /\ UNCHANGED <<l_result, l_error, l_isReady, l_isWait, l_qWait,
                   l_resolve, l_reject, l_calls, l_nops>>
    /\ UNCHANGED LOthers

\* __done: self.__isReady = 2
DoneDelivered(self) ==
    /\ l_pc[self] \in {"d170", "d174"}
    /\ l_isReady' = 2
    /\ l_pc' = [l_pc EXCEPT ![self] = IF @ = "d170" THEN "d171" ELSE "d175"]
    /\ UNCHANGED <<l_result, l_error, l_isWait, l_qWait, l_resolve, l_reject,
                   l_calls, l_nops>>
    /\ UNCHANGED LOthers

\* __done: self.__reject(self.__error) or self.__resolve(self.__result)
DoneInvoke(self) ==
    /\ l_pc[self] \in {"d171", "d175"}
    /\ l_calls' = Append(l_calls,
                     IF l_pc[self] = "d171"
                     THEN Invocation("reject", "error", self)
                     ELSE Invocation("resolve", l_result, self))
    /\ l_pc' = [l_pc EXCEPT ![self] = "d176"]
    /\ UNCHANGED <<l_result, l_error, l_isReady, l_isWait, l_qWait,
                   l_resolve, l_reject, l_nops>>
    /\ UNCHANGED LOthers

\* __done: if self.__isWait
DoneWaitTest(self) ==
    /\ l_pc[self] = "d176"
    /\ l_pc' = [l_pc EXCEPT ![self] = IF l_isWait THEN "d177"
                                      ELSE after_done(self)]
    /\ UNCHANGED <<l_result, l_error, l_isReady, l_isWait, l_qWait,
                   l_resolve, l_reject, l_calls, l_nops>>
    /\ UNCHANGED LOthers

\* __done: self.__qWait.put(1), which waits while the queue is full
DonePut(self) ==
    /\ l_pc[self] = "d177"
    /\ l_qWait < 1
    /\ l_qWait' = l_qWait + 1
    /\ l_pc' = [l_pc EXCEPT ![self] = after_done(self)]
    /\ UNCHANGED <<l_result, l_error, l_isReady, l_isWait, l_resolve,
                   l_reject, l_calls, l_nops>>
    /\ UNCHANGED LOthers

\* wait: if self.__isReady < 1
WaitTest ==
    /\ l_pc.holder = "idle"
    /\ l_nops < MaxOps
    /\ l_nops' = l_nops + 1
    /\ l_pc' = [l_pc EXCEPT !.holder = IF l_isReady < 1 THEN "w143"
                                       ELSE "w147"]
    /\ UNCHANGED <<l_result, l_error, l_isReady, l_isWait, l_qWait,
                   l_resolve, l_reject, l_calls>>
    /\ UNCHANGED LOthers

\* wait: self.__isWait = True
WaitSet ==
    /\ l_pc.holder = "w143"
    /\ l_isWait' = TRUE
    /\ l_pc' = [l_pc EXCEPT !.holder = "w144"]
    /\ UNCHANGED <<l_result, l_error, l_isReady, l_qWait, l_resolve,
                   l_reject, l_calls, l_nops>>
    /\ UNCHANGED LOthers

\* wait: self.__qWait.get(), which waits while the queue is empty, and
\* task_done()
WaitGet ==
    /\ l_pc.holder = "w144"
    /\ l_qWait > 0
    /\ l_qWait' = l_qWait - 1
    /\ l_pc' = [l_pc EXCEPT !.holder = "w147"]
    /\ UNCHANGED <<l_result, l_error, l_isReady, l_isWait, l_resolve,
                   l_reject, l_calls, l_nops>>
    /\ UNCHANGED LOthers

\* wait: finally self.__isWait = False
WaitFinally ==
    /\ l_pc.holder = "w147"
    /\ l_isWait' = FALSE
    /\ l_pc' = [l_pc EXCEPT !.holder = "idle"]
    /\ UNCHANGED <<l_result, l_error, l_isReady, l_qWait, l_resolve,
                   l_reject, l_calls, l_nops>>
    /\ UNCHANGED LOthers

\* the steps of the worker thread
NextWorker ==
    \/ WorkerCall
    \/ WorkerReady
    \/ DoneTest("worker")
    \/ DoneChoose("worker")
    \/ DoneDelivered("worker")
    \/ DoneInvoke("worker")
    \/ DoneWaitTest("worker")
    \/ DonePut("worker")

\* the steps of the thread that holds the _ThreadResult
NextHolder ==
    \/ DoneResolve
    \/ DoneReject
    \/ DoneTest("holder")
    \/ DoneChoose("holder")
    \/ DoneDelivered("holder")
    \/ DoneInvoke("holder")
    \/ DoneWaitTest("holder")
    \/ DonePut("holder")
    \/ WaitTest
    \/ WaitSet
    \/ WaitGet
    \/ WaitFinally

NextL == NextWorker \/ NextHolder

\* a thread that can take a step is scheduled in the end
SpecL ==
    /\ LInit
    /\ [][NextL]_vars
    /\ WF_vars(NextWorker)
    /\ WF_vars(NextHolder)


------------------------------------------------------------------------------
(* Claims about _ThreadResult (SpecL) *)

\* both threads are through and done() was called
task_over ==
    /\ l_pc.worker = "fin"
    /\ l_pc.holder = "idle"
    /\ l_resolve

\* C38: the callbacks given to done() are invoked once in total, resolve
\* with the result when func returned and reject with the error when it
\* raised, however done() and the end of the worker interleave.
C38_CallbackOnce ==
    /\ Len(l_calls) <= 1
    /\ task_over =>
          /\ Len(l_calls) = 1
          /\ l_calls[1].cb = (IF l_error THEN "reject" ELSE "resolve")
          /\ l_calls[1].arg = (IF l_error THEN "error" ELSE l_result)

\* C39: a wait() that is under way when the worker has delivered, or that
\* the worker's delivery overtakes, returns.
C39_WaitReturns ==
    (l_pc.holder \in {"w143", "w144", "w147"}) ~> (l_pc.holder = "idle")


------------------------------------------------------------------------------
(* One Transport used by two threads at a time (_client.py).  Nothing in   *)
(* Transport or ServerProxy takes a lock; each thread runs request() as    *)
(* the single caller does, on the shared self._connection.                 *)

\* bound: calls of request() the two threads make together
MaxThreadCalls == 2

XThreads == {1, 2}

XThread(pc, host, i, http_conn) ==
    [pc |-> pc, host |-> host, i |-> i, http_conn |-> http_conn]

\* the Transport as make_connection sees it (a plain Transport that has
\* followed no redirect)
xself == [safe |-> FALSE, conn |-> x_conn,
          hosts301 |-> [h \in Hosts |-> None], nconn |-> x_nconn]

XInit ==
    /\ DIdle
    /\ MIdle
    /\ TIdle
    /\ CIdle
    /\ KIdle
    /\ PIdle
    /\ SIdle
    /\ RIdle
    /\ HIdle
    /\ QIdle
    /\ LIdle
    /\ x_conn = NoConn
    /\ x_nconn = 0
    /\ x_closed = {}
    /\ x_th = [th \in XThreads |-> XThread("idle", None, 0, 0)]
    /\ x_ncalls = 0

XOthers == <<dvars, mvars, tvars, cvars, kvars, pvars, svars, rvars, hvars,
             qvars, lvars>>

\* a thread calls request(host, ...)
XRequest(th, host) ==
    /\ x_th[th].pc = "idle"
    /\ x_ncalls < MaxThreadCalls
    /\ x_ncalls' = x_ncalls + 1
    /\ x_th' = [x_th EXCEPT ![th] = XThread("make", host, 0, 0)]
    /\ UNCHANGED <<x_conn, x_nconn, x_closed>>
    /\ UNCHANGED XOthers

\* send_request: connection = self.make_connection(host)
XMakeConnection(th) ==
    /\ x_th[th].pc = "make"
    /\ LET mc == make_connection(xself, x_th[th].host) IN
       /\ x_conn' = mc.conn
       /\ x_nconn' = mc.nconn
       /\ x_th' = [x_th EXCEPT ![th].pc = "send",
                               ![th].http_conn = mc.conn.id]
    /\ UNCHANGED <<x_closed, x_ncalls>>
    /\ UNCHANGED XOthers

\* except Exception: self.close(), which closes what the cache holds now;
\* then the except clauses of request
XCloseAndLeave(th, exc) ==
    /\ x_conn' = close(x_conn, x_closed).conn
    /\ x_closed' = close(x_conn, x_closed).closed
    /\ x_th' = [x_th EXCEPT ![th] =
                  IF request_except(@.i, exc) = "swallow" /\ @.i = 0
                  THEN XThread("make", @.host, 1, 0)
                  ELSE XThread("idle", None, 0, 0)]

\* send_request: the request is written on the connection object; an object
\* another thread is using refuses it (CannotSendRequest) unless the two
\* race past its state check
XSend(th) ==
    /\ x_th[th].pc = "send"
    /\ \/ /\ x_th' = [x_th EXCEPT ![th].pc = "resp"]
          /\ UNCHANGED <<x_conn, x_closed>>
       \/ \E o \in SendFailures : XCloseAndLeave(th, o)
    /\ UNCHANGED <<x_nconn, x_ncalls>>
    /\ UNCHANGED XOthers

\* getresponse on the thread's connection object and the rest of
\* single_request: the call ends with a value, a Fault or a ProtocolError
\* (none of which closes), or an exception closes and leaves
XGetResponse(th) ==
    /\ x_th[th].pc = "resp"
    /\ \/ /\ x_th' = [x_th EXCEPT ![th] = XThread("idle", None, 0, 0)]
          /\ UNCHANGED <<x_conn, x_closed>>
       \/ \E o \in ResponseFailures : XCloseAndLeave(th, o)
    /\ UNCHANGED <<x_nconn, x_ncalls>>
    /\ UNCHANGED XOthers

NextX ==
    \/ \E th \in XThreads, host \in Hosts : XRequest(th, host)
    \/ \E th \in XThreads : XMakeConnection(th)
    \/ \E th \in XThreads : XSend(th)
    \/ \E th \in XThreads : XGetResponse(th)

SpecX == XInit /\ [][NextX]_vars

------------------------------------------------------------------------------
(* Claims about two threads on one Transport (SpecX) *)

\* the thread has a connection object in hand for a call under way
in_flight(th) == x_th[th].pc \in {"send", "resp"}

\* a step another thread takes leaves alone the connection this thread is
\* using: it is not closed, and if the cache holds it, it stays there
left_alone(th) ==
    (in_flight(th) /\ x_th'[th] = x_th[th])
       => /\ x_th[th].http_conn \in x_closed'
                => x_th[th].http_conn \in x_closed
          /\ x_conn.id = x_th[th].http_conn => x_conn'.id = x_conn.id

\* C31: two calls under way on one Transport never have the same connection
\* object in hand, and no call closes or replaces in the cache the object
\* the other is using.
C31_NeverShared ==
    /\ [](\A a, b \in XThreads :
             (a # b /\ in_flight(a) /\ in_flight(b))
                => x_th[a].http_conn # x_th[b].http_conn)
    /\ [][\A th \in XThreads : left_alone(th)]_vars

====
